---------------------------- MODULE Spec2Model ----------------------------
(***************************************************************************)
(* A model of the extcap crate: the control-pipe codec                     *)
(* (control_pipe_runtime.rs, control_pipe.rs) and the run of an Extcap     *)
(* (lib.rs): flag parsing, step derivation, dispatch and capture.          *)
(*                                                                         *)
(* Four specifications share the module:                                   *)
(*   SpecCodec  the codec driven over a byte buffer: messages are encoded  *)
(*              onto a wire, bytes reach the decoder's buffer one at a     *)
(*              time, raw bytes may be written by the peer, and decode is  *)
(*              called on the buffer;                                      *)
(*   SpecRun    one run of Extcap::run for every command line over the     *)
(*              built-in flags and a few registries;                       *)
(*   SpecPipe   one ControlPipeRuntime: its callers (start, run_task,      *)
(*              stop), the two pumps thread_in and thread_out polled by    *)
(*              an executor, the peer on the two pipes and the capture     *)
(*              routine on the two queues.  Nothing in the crate polls     *)
(*              the task, so no step of a pump is assumed to be taken;     *)
(*   SpecFn     the pure functions applied to inputs drawn from bounded    *)
(*              sets: the ControlCmd conversions, the frame header that    *)
(*              encode writes for a payload length and what decode makes   *)
(*              of it, and the descriptor lines the print functions write. *)
(***************************************************************************)
EXTENDS Integers, Sequences, FiniteSets, TLC

VARIABLES
    \* ---- codec (SpecCodec) ----
    sent,      \* the messages handed to encode, in order
    wire,      \* the encoder's output buffer (bytes not yet moved to buf)
    buf,       \* the decoder's input buffer (BytesMut of FramedRead)
    out,       \* the messages decode has returned, in order
    din,       \* the buffer decode was given, if decode was the last operation
    dres,      \* what decode returned, if decode was the last operation
    last,      \* the last codec operation
    \* ---- run (SpecRun) ----
    extcap,    \* the Extcap struct
    argv,      \* the command line run parses
    pc,        \* the position of Extcap::run
    result,    \* what run returned, once it has
    stdout,    \* the descriptor records printed so far
    calls,     \* the listener callbacks and engine calls made so far
    ctrl,      \* the ControlPipe of Extcap::capture: None, New, Started, Stopped
    res,       \* the capture routine's result, held by Extcap::capture
    \* ---- control-pipe engine (SpecPipe) ----
    state,     \* ControlPipeRuntime.state: New, Started, or None once taken
    tsk,       \* ControlPipeRuntime.tsk: None, Stored, Taken, Dropped
    api,       \* the last call on the engine: <<operation, state before, outcome>>
    stop_in,   \* the oneshot of thread_in: none, armed, sent, dropped
    stop_out,  \* the oneshot of thread_out: none, armed, sent, dropped
    pump_in,   \* thread_in: none, stored, idle, polling, exited (cancelled), done,
               \* error (decode), eof_error (bytes remaining at the end), dropped
    pump_out,  \* thread_out: none, stored, idle, polling, exited, done, dropped
    pipe_in,   \* read pipe: the bytes the peer wrote and thread_in has not read
    peer_in,   \* the peer on the read pipe: open, garbled (wrote a bad header), closed
    rbuf,      \* the buffer of the FramedRead of thread_in
    item,      \* the message Forward holds until the queue takes it (Option)
    q_in,      \* the queue from thread_in to the capture routine
    q_out,     \* the queue from the capture routine to thread_out
    cur,       \* the message thread_out took and is sending (Option)
    wire_out,  \* write pipe: the bytes written to it
    wstall,    \* the peer does not read the write pipe: a write stays pending
    lst,       \* the capture routine: none, running (holds the endpoints), returned
    arrived,   \* control numbers of the frames the peer wrote completely, in order
    decoded,   \* control numbers of the messages decode returned to thread_in
    recv,      \* control numbers the capture routine received, in order
    sub,       \* control numbers the capture routine submitted, in order
    wlog,      \* what strm.send returned to thread_out: <<"ok" | "fail", control number>>
    rjob,      \* the read tokio::fs::File runs on a blocking thread (Option):
               \* <<"reading">>, <<"read", bytes>> or <<"eof">>
    wjob,      \* the write tokio::fs::File runs on a blocking thread (Option):
               \* <<"writing" | "ok" | "fail", message>>
    at_stop,   \* what decode had returned when stop() was called (Option)
    \* ---- pure functions (SpecFn) ----
    subject,   \* the input: <<kind, value>>
    fns,       \* the functions applied so far, in order
    got        \* what the last of them returned

codecVars == <<sent, wire, buf, out, din, dres, last>>
runVars   == <<extcap, argv, pc, result, stdout, calls, ctrl, res>>
pipeVars  == <<state, tsk, api, stop_in, stop_out, pump_in, pump_out, pipe_in,
               peer_in, rbuf, item, q_in, q_out, cur, wire_out, wstall, lst,
               arrived, decoded, recv, sub, wlog, rjob, wjob, at_stop>>
fnVars    == <<subject, fns, got>>
vars      == <<sent, wire, buf, out, din, dres, last,
               extcap, argv, pc, result, stdout, calls, ctrl, res,
               state, tsk, api, stop_in, stop_out, pump_in, pump_out, pipe_in,
               peer_in, rbuf, item, q_in, q_out, cur, wire_out, wstall, lst,
               arrived, decoded, recv, sub, wlog, rjob, wjob, at_stop,
               subject, fns, got>>

\* ------------------------------------------------------------------------
\* Bounds of the model
\* ------------------------------------------------------------------------
MaxFrames == 2      \* messages encoded in one behaviour
MaxBuf    == 7      \* raw bytes the peer writes in one behaviour
LongLen   == 254    \* length of the one long payload (declared length > 255)
MaxIfaces   == 2    \* interfaces registered in one behaviour
MaxControls == 2    \* controls registered in one behaviour
PIPE_LEN == 1       \* buffer of the two queues (the crate sets 128)
MaxIn     == 3      \* frames the peer writes to the read pipe
MaxOut    == 2      \* messages the capture routine submits
ReadChunk == 3      \* bytes of a short read of the read pipe (half a frame)

\* ------------------------------------------------------------------------
\* Helpers on sequences
\* ------------------------------------------------------------------------
Take(s, n) == SubSeq(s, 1, n)
Drop(s, n) == SubSeq(s, n + 1, Len(s))
IsPrefix(p, s) == Len(p) <= Len(s) /\ Take(s, Len(p)) = p

\* ------------------------------------------------------------------------
\* control_pipe.rs: ControlCmd and its conversions
\* ------------------------------------------------------------------------
SYNC == 84    \* b'T'

NamedCmds == <<"Initialized", "Set", "Add", "Remove", "Enable", "Disable",
               "StatusbarMessage", "InformationMessage", "WarningMessage",
               "ErrorMessage">>

Named(n)   == <<n>>
Unknown(v) == <<"Unknown", v>>

\* a conversion that has no name for code 9
FromU8NoErrorMessage(val) ==
    IF val < 9 THEN Named(NamedCmds[val + 1]) ELSE Unknown(val)

\* impl From<u8> for ControlCmd
FromU8(val) ==
    IF val < 10 THEN Named(NamedCmds[val + 1]) ELSE Unknown(val)

\* impl From<&ControlCmd> for u8
ToU8(cmd) ==
    IF cmd[1] = "Unknown" THEN cmd[2]
    ELSE CHOOSE i \in 0..9 : NamedCmds[i + 1] = cmd[1]

\* ControlMsg::new
ControlMsg(ctrl_num, command, data) ==
    [ctrl_num |-> ctrl_num, command |-> command, data |-> data]

\* ------------------------------------------------------------------------
\* control_pipe_runtime.rs: ControlMsgCodec
\* ------------------------------------------------------------------------
\* a put_uint that writes the largest three-byte value for a number that
\* does not fit into three bytes
PutUint3Saturating(n) ==
    IF n > 16777215 THEN <<255, 255, 255>>
    ELSE <<(n \div 65536) % 256, (n \div 256) % 256, n % 256>>

\* BufMut::put_uint(n, 3): the low three bytes of n, big-endian
PutUint3(n) == <<(n \div 65536) % 256, (n \div 256) % 256, n % 256>>

\* Buf::get_uint(3) over bytes 2..4 of the header
GetUint3(hdr) == hdr[2] * 65536 + hdr[3] * 256 + hdr[4]

\* a variant of encode whose length field leaves out the two sub-header bytes
encodePayloadLen(msg, b) ==
    b \o <<SYNC>> \o PutUint3(Len(msg.data))
      \o <<msg.ctrl_num, ToU8(msg.command)>> \o msg.data

\* Encoder::encode: the bytes appended to the output buffer
encode(msg, b) ==
    b \o <<SYNC>> \o PutUint3(2 + Len(msg.data))
      \o <<msg.ctrl_num, ToU8(msg.command)>> \o msg.data

NoMsg == ControlMsg(0, Named("Initialized"), <<>>)
Found(m, b)     == [kind |-> "Some", msg |-> m, rest |-> b, why |-> ""]
NeedMore(b)     == [kind |-> "None", msg |-> NoMsg, rest |-> b, why |-> ""]
Framing(b, why) == [kind |-> "Err", msg |-> NoMsg, rest |-> b, why |-> why]

\* the rest of decode once the header is accepted, with the least declared
\* length min_len
decodeFrame(b, min_len) ==
    LET msg_len == GetUint3(b) IN
    IF msg_len < min_len THEN Framing(b, "Message Length < 2") ELSE
    IF Len(b) < 4 + msg_len THEN NeedMore(b) ELSE
    LET pdu == Drop(Take(b, 4 + msg_len), 4) IN
    Found(ControlMsg(pdu[1], IF Len(pdu) >= 2 THEN FromU8(pdu[2]) ELSE Unknown(0),
                     Drop(pdu, 2)),
          Drop(b, 4 + msg_len))

\* a variant of decode that looks at the sync byte as soon as there is one
decodeSyncFirst(b) ==
    IF Len(b) >= 1 /\ b[1] # SYNC THEN Framing(b, "Sync Pipe Indication != 'T'") ELSE
    IF Len(b) < 4 THEN NeedMore(b) ELSE
    decodeFrame(b, 2)

\* a variant of decode that waits for the declared length before it looks
\* at the sync byte
decodeSyncLast(b) ==
    IF Len(b) < 4 THEN NeedMore(b) ELSE
    IF Len(b) < 4 + GetUint3(b) THEN NeedMore(b) ELSE
    IF b[1] # SYNC THEN Framing(b, "Sync Pipe Indication != 'T'") ELSE
    decodeFrame(b, 2)

\* a variant of decode whose length check is off by one
decodeMinLen1(b) ==
    IF Len(b) < 4 THEN NeedMore(b) ELSE
    IF b[1] # SYNC THEN Framing(b, "Sync Pipe Indication != 'T'") ELSE
    decodeFrame(b, 1)

\* a variant of decode that takes the whole buffer with the frame
decodeTakeAll(b) ==
    IF Len(b) < 4 THEN NeedMore(b) ELSE
    IF b[1] # SYNC THEN Framing(b, "Sync Pipe Indication != 'T'") ELSE
    LET msg_len == GetUint3(b) IN
    IF msg_len < 2 THEN Framing(b, "Message Length < 2") ELSE
    IF Len(b) < 4 + msg_len THEN NeedMore(b) ELSE
    LET pdu == Drop(Take(b, 4 + msg_len), 4) IN
    Found(ControlMsg(pdu[1], FromU8(pdu[2]), Drop(pdu, 2)), <<>>)

\* Decoder::decode: Ok(None), Err(InvalidData) or Ok(Some(msg)), and the
\* buffer it leaves (split_to removes the frame from the front)
decode(b) ==
    IF Len(b) < 4 THEN NeedMore(b) ELSE
    IF b[1] # SYNC THEN Framing(b, "Sync Pipe Indication != 'T'") ELSE
    LET msg_len == GetUint3(b) IN
    IF msg_len < 2 THEN Framing(b, "Message Length < 2") ELSE
    IF Len(b) < 4 + msg_len THEN NeedMore(b) ELSE
    LET pdu == Drop(Take(b, 4 + msg_len), 4) IN
    Found(ControlMsg(pdu[1], FromU8(pdu[2]), Drop(pdu, 2)),
          Drop(b, 4 + msg_len))

\* ------------------------------------------------------------------------
\* The codec driven over a buffer (FramedRead / FramedWrite around the codec)
\* ------------------------------------------------------------------------
\* the bytes the peer may write raw: 0, 1 and 2 as length bytes and
\* sub-header bytes, the sync byte, and a byte that is none of them
RawBytes == {0, 1, 2, SYNC}

LongData == [i \in 1..LongLen |-> 0]

\* every command: the ten named ones, unknown codes, and Unknown(v) with a
\* code below 10, which a caller can construct
AllCmds == {Named(NamedCmds[i]) : i \in 1..10}
             \cup {Unknown(10), Unknown(255), Unknown(3)}

\* the commands the wire format can name: Unknown(v) only with v >= 10
WireCmd(cmd) == cmd[1] # "Unknown" \/ cmd[2] >= 10

Msgs == {ControlMsg(0, c, <<>>) : c \in AllCmds}
          \cup {ControlMsg(255, Named("Set"), <<SYNC>>),
                ControlMsg(1, Unknown(10), <<SYNC, 0>>),
                ControlMsg(2, Named("Add"), LongData)}

\* the bytes of the frames of a sequence of messages
RECURSIVE Consumed(_)
Consumed(ms) ==
    IF ms = <<>> THEN 0 ELSE 6 + Len(Head(ms).data) + Consumed(Tail(ms))

InitCodec ==
    /\ sent = <<>>
    /\ wire = <<>>
    /\ buf  = <<>>
    /\ out  = <<>>
    /\ din  = <<>>
    /\ dres = NeedMore(<<>>)
    /\ last = "init"

\* FramedWrite::send -> Encoder::encode(msg, buf); send has written the
\* frame before it (thread_out awaits each send)
Encode(m) ==
    /\ Len(sent) < MaxFrames
    /\ wire = <<>>
    /\ sent # <<>> \/ (buf = <<>> /\ out = <<>>)   \* no raw bytes were written
    /\ sent' = Append(sent, m)
    /\ wire' = encode(m, wire)
    /\ last' = "encode"
    /\ din' = <<>> /\ dres' = NeedMore(<<>>)
    /\ UNCHANGED <<buf, out>>
    /\ UNCHANGED runVars
    /\ UNCHANGED <<pipeVars, fnVars>>

\* one byte of the encoded stream reaches the decoder's buffer
Transfer ==
    /\ wire # <<>>
    /\ buf'  = Append(buf, Head(wire))
    /\ wire' = Tail(wire)
    /\ last' = "transfer"
    /\ din' = <<>> /\ dres' = NeedMore(<<>>)
    /\ UNCHANGED <<sent, out>>
    /\ UNCHANGED runVars
    /\ UNCHANGED <<pipeVars, fnVars>>

\* the peer writes one raw byte into the pipe (no encoder involved)
Inject(b) ==
    /\ sent = <<>>
    /\ Len(buf) + Consumed(out) < MaxBuf
    /\ buf' = Append(buf, b)
    /\ last' = "inject"
    /\ din' = <<>> /\ dres' = NeedMore(<<>>)
    /\ UNCHANGED <<sent, wire, out>>
    /\ UNCHANGED runVars
    /\ UNCHANGED <<pipeVars, fnVars>>

\* FramedRead polls Decoder::decode(buf)
Decode ==
    /\ LET r == decode(buf) IN
         /\ din'  = buf
         /\ dres' = r
         /\ buf'  = r.rest
         /\ out'  = IF r.kind = "Some" THEN Append(out, r.msg) ELSE out
    /\ last' = "decode"
    /\ UNCHANGED <<sent, wire>>
    /\ UNCHANGED runVars
    /\ UNCHANGED <<pipeVars, fnVars>>

NextCodec ==
    \/ \E m \in Msgs : Encode(m)
    \/ Transfer
    \/ \E b \in RawBytes : Inject(b)
    \/ Decode


\* ------------------------------------------------------------------------
\* arg.rs, iface.rs, control.rs: the registries
\* ------------------------------------------------------------------------
NoNumber == -1     \* usize::max_value(): no number assigned yet

\* IfArgVal::new
IfArgVal(value) == [arg |-> NoNumber, value |-> value]

\* IfArg::new, .reload(r), add_val for each value
IfArg(name, reload, values) ==
    [number |-> NoNumber, name |-> name, reload |-> reload,
     vals |-> [i \in 1..Len(values) |-> IfArgVal(values[i])]]

\* a set_number that leaves the values of the argument as they are
ArgSetNumberOnly(arg, number) ==
    [arg EXCEPT !.number = number]

\* IfArg::set_number
ArgSetNumber(arg, number) ==
    [arg EXCEPT !.number = number,
                !.vals = [i \in 1..Len(arg.vals) |->
                             [arg.vals[i] EXCEPT !.arg = number]]]

\* a reload that takes the values as the listener returned them
ArgReloadOptionKeepOwner(arg, nvals) ==
    [arg EXCEPT !.vals = nvals]

\* IfArg::reload_option
ArgReloadOption(arg, nvals) ==
    [arg EXCEPT !.vals = [i \in 1..Len(nvals) |->
                             [nvals[i] EXCEPT !.arg = arg.number]]]

\* IFace::new
IFaceNew(interface) == [interface |-> interface, args |-> <<>>, debug |-> FALSE]

\* IFace::add_arg
add_arg(ifc, arg) ==
    [ifc EXCEPT !.args = Append(ifc.args, ArgSetNumber(arg, Len(ifc.args)))]

\* IFace::config_debug
IFaceConfigDebug(ifc) ==
    IF ifc.debug THEN ifc
    ELSE add_arg(add_arg([ifc EXCEPT !.debug = TRUE],
                         IfArg("debug", FALSE, <<>>)),
                 IfArg("debug-file", FALSE, <<>>))

\* IFace::get_arg_idx: Some(position) as a 0-based index, None as -1
get_arg_idx(ifc, name) ==
    IF \E i \in 1..Len(ifc.args) : ifc.args[i].name = name
    THEN (CHOOSE i \in 1..Len(ifc.args) :
             /\ ifc.args[i].name = name
             /\ \A j \in 1..(i - 1) : ifc.args[j].name # name) - 1
    ELSE -1

\* IFace::has_reloadable_arg
has_reloadable_arg(ifc) == \E i \in 1..Len(ifc.args) : ifc.args[i].reload

\* Control::new, add_val for each value
Control(values) ==
    [number |-> NoNumber,
     vals |-> [i \in 1..Len(values) |-> [control |-> NoNumber, value |-> values[i]]]]

\* a set_number that leaves the values of the control as they are
ControlSetNumberOnly(c, number) ==
    [c EXCEPT !.number = number]

\* Control::set_number
ControlSetNumber(c, number) ==
    [c EXCEPT !.number = number,
              !.vals = [i \in 1..Len(c.vals) |->
                           [c.vals[i] EXCEPT !.control = number]]]


\* ------------------------------------------------------------------------
\* lib.rs: the Extcap struct and its registration methods
\* ------------------------------------------------------------------------
OPT_EXTCAP_VERSION        == "extcap-version"
OPT_EXTCAP_INTERFACES     == "extcap-interfaces"
OPT_EXTCAP_INTERFACE      == "extcap-interface"
OPT_EXTCAP_DTLS           == "extcap-dlts"
OPT_EXTCAP_CONFIG         == "extcap-config"
OPT_EXTCAP_RELOAD_OPTION  == "extcap-reload-option"
OPT_CAPTURE               == "capture"
OPT_EXTCAP_CAPTURE_FILTER == "extcap-capture-filter"
OPT_FIFO                  == "fifo"
OPT_EXTCAP_CONTROL_IN     == "extcap-control-in"
OPT_EXTCAP_CONTROL_OUT    == "extcap-control-out"
OPT_DEBUG                 == "debug"
OPT_DEBUG_FILE            == "debug-file"

\* ExtcapStep
StepNone             == <<"None">>
StepQueryIfaces      == <<"QueryIfaces">>
StepQueryDlts        == <<"QueryDlts">>
StepConfigIface(r)   == <<"ConfigIface", r>>
StepCapture(cp)      == <<"Capture", cp>>

Range(f) == {f[i] : i \in DOMAIN f}

\* Option<App>: the clap App holds the flags registered so far
SomeApp(args) == [some |-> TRUE, args |-> args]
NoneApp       == [some |-> FALSE, args |-> <<>>]

\* a flag that is absent from the command line / Option::None of value_of
Absent == "(absent)"

\* Option<ArgMatches>: None is <<>>, Some(m) is <<m>>
NoMatches      == <<>>
SomeMatches(m) == <<m>>

\* Extcap::new
ExtcapNew ==
    [step       |-> StepNone,
     app        |-> SomeApp(<<OPT_EXTCAP_VERSION, OPT_EXTCAP_INTERFACES,
                              OPT_EXTCAP_INTERFACE, OPT_EXTCAP_DTLS,
                              OPT_EXTCAP_CONFIG, OPT_CAPTURE,
                              OPT_EXTCAP_CAPTURE_FILTER, OPT_FIFO>>),
     app_args   |-> {},
     matches    |-> NoMatches,
     interfaces |-> <<>>,
     reload_opt |-> FALSE,
     ifc_debug  |-> FALSE,
     control    |-> FALSE,
     controls   |-> <<>>]

\* Extcap::app_arg (take_app must find the App: see NeedsApp)
app_arg(ex, name) == [ex EXCEPT !.app = SomeApp(Append(ex.app.args, name))]

\* Extcap::config_arg
config_arg(ex, ifa) ==
    IF ifa.name \in ex.app_args THEN ex
    ELSE [app_arg(ex, ifa.name) EXCEPT !.app_args = @ \cup {ifa.name}]

\* Extcap::config_reload_opt
config_reload_opt(ex) ==
    IF ex.reload_opt THEN ex
    ELSE [app_arg([ex EXCEPT !.reload_opt = TRUE], OPT_EXTCAP_RELOAD_OPTION)
            EXCEPT !.app_args = @ \cup {OPT_EXTCAP_RELOAD_OPTION}]

\* Extcap::config_control
config_control(ex) ==
    IF ex.control THEN ex
    ELSE [app_arg(app_arg([ex EXCEPT !.control = TRUE], OPT_EXTCAP_CONTROL_IN),
                  OPT_EXTCAP_CONTROL_OUT)
            EXCEPT !.app_args = @ \cup {OPT_EXTCAP_CONTROL_IN, OPT_EXTCAP_CONTROL_OUT}]

\* Extcap::config_debug
config_debug(ex) ==
    IF ex.ifc_debug THEN ex
    ELSE [app_arg(app_arg([ex EXCEPT !.ifc_debug = TRUE], OPT_DEBUG), OPT_DEBUG_FILE)
            EXCEPT !.app_args = @ \cup {OPT_DEBUG, OPT_DEBUG_FILE}]

\* the loop of add_interface over ifc.get_args()
RECURSIVE config_args(_, _)
config_args(ex, args) ==
    IF args = <<>> THEN ex
    ELSE config_args(config_arg(ex, Head(args)), Tail(args))

\* Extcap::add_interface
add_interface(ex, ifc) ==
    LET e1 == IF has_reloadable_arg(ifc) /\ ~ex.reload_opt
              THEN config_reload_opt(ex) ELSE ex
        e2 == IF ifc.debug /\ ~e1.ifc_debug THEN config_debug(e1) ELSE e1
        e3 == config_args(e2, ifc.args)
    IN  [e3 EXCEPT !.interfaces = Append(e3.interfaces, ifc)]

\* Extcap::add_control
add_control(ex, c) ==
    LET e1 == IF ~ex.control THEN config_control(ex) ELSE ex
    IN  [e1 EXCEPT !.controls = Append(e1.controls,
                                       ControlSetNumber(c, Len(e1.controls)))]

\* whether add_interface(ex, ifc) reaches take_app, which panics with
\* "Extcap invalid state: already run" once run has taken the App
AddInterfaceNeedsApp(ex, ifc) ==
    \/ has_reloadable_arg(ifc) /\ ~ex.reload_opt
    \/ ifc.debug /\ ~ex.ifc_debug
    \/ \E i \in 1..Len(ifc.args) : ifc.args[i].name \notin ex.app_args

\* get_if_idx that answers the first interface when the name is not found
get_if_idxOrFirst(ex, ifc) ==
    IF \E i \in 1..Len(ex.interfaces) : ex.interfaces[i].interface = ifc
    THEN (CHOOSE i \in 1..Len(ex.interfaces) :
             /\ ex.interfaces[i].interface = ifc
             /\ \A j \in 1..(i - 1) : ex.interfaces[j].interface # ifc) - 1
    ELSE IF ex.interfaces # <<>> THEN 0 ELSE -1

\* Extcap::get_if_idx: Some(position) as a 0-based index, None as -1
get_if_idx(ex, ifc) ==
    IF \E i \in 1..Len(ex.interfaces) : ex.interfaces[i].interface = ifc
    THEN (CHOOSE i \in 1..Len(ex.interfaces) :
             /\ ex.interfaces[i].interface = ifc
             /\ \A j \in 1..(i - 1) : ex.interfaces[j].interface # ifc) - 1
    ELSE -1

\* Extcap::get_if
get_if(ex, ifidx) == ex.interfaces[ifidx + 1]


\* ------------------------------------------------------------------------
\* lib.rs: the flag parser Extcap::new and the config_* methods set up
\* ------------------------------------------------------------------------
\* A command line gives each flag at most once.  The flags with a value
\* that the run reads (extcap-interface, extcap-reload-option) carry it;
\* the others are present or absent.
CmdFlags == {OPT_EXTCAP_INTERFACES, OPT_EXTCAP_INTERFACE, OPT_EXTCAP_DTLS,
             OPT_EXTCAP_CONFIG, OPT_CAPTURE, OPT_EXTCAP_CAPTURE_FILTER,
             OPT_FIFO, OPT_EXTCAP_RELOAD_OPTION, OPT_EXTCAP_CONTROL_IN,
             OPT_EXTCAP_CONTROL_OUT}

\* ArgMatches::is_present
is_present(av, flag) ==
    CASE flag = OPT_EXTCAP_INTERFACES     -> av.interfaces
      [] flag = OPT_EXTCAP_INTERFACE      -> av.interface # Absent
      [] flag = OPT_EXTCAP_DTLS           -> av.dlts
      [] flag = OPT_EXTCAP_CONFIG         -> av.config
      [] flag = OPT_CAPTURE               -> av.capture
      [] flag = OPT_EXTCAP_CAPTURE_FILTER -> av.filter
      [] flag = OPT_FIFO                  -> av.fifo
      [] flag = OPT_EXTCAP_RELOAD_OPTION  -> av.reload # Absent
      [] flag = OPT_EXTCAP_CONTROL_IN     -> av.control_in
      [] flag = OPT_EXTCAP_CONTROL_OUT    -> av.control_out
      [] OTHER                            -> FALSE

FlagsGiven(av) == {f \in CmdFlags : is_present(av, f)}

\* Arg::requires of each flag
Requires(flag) ==
    CASE flag = OPT_CAPTURE               -> {OPT_FIFO}
      [] flag = OPT_EXTCAP_CAPTURE_FILTER -> {OPT_CAPTURE}
      [] flag = OPT_FIFO                  -> {OPT_CAPTURE}
      [] flag = OPT_EXTCAP_RELOAD_OPTION  -> {OPT_EXTCAP_INTERFACE, OPT_EXTCAP_CONFIG}
      [] flag = OPT_EXTCAP_CONTROL_IN     -> {OPT_CAPTURE}
      [] flag = OPT_EXTCAP_CONTROL_OUT    -> {OPT_CAPTURE}
      [] OTHER                            -> {}

\* no flag declares a conflict
ConflictsWithNothing(flag) == {}

\* Arg::conflicts_with of each flag
ConflictsWith(flag) ==
    IF flag = OPT_EXTCAP_INTERFACE THEN {OPT_EXTCAP_INTERFACES} ELSE {}

\* the group if_action requiring nothing
IfActionRequiresNothing == {}

\* ArgGroup "if_action": its members, multiple(false), requires
IfActionArgs     == {OPT_EXTCAP_DTLS, OPT_EXTCAP_CONFIG, OPT_CAPTURE}
IfActionRequires == {OPT_EXTCAP_INTERFACE}

\* clap 2, Validator::is_missing_required_ok: a required flag that is
\* absent is excused when a flag it conflicts_with is given
MissingRequiredOk(r, given) == ConflictsWith(r) \cap given # {}

\* clap 2, the parser's list of required flags when the validation starts.
\* Each flag parsed adds what it requires, a member of the group adds what
\* the group requires, and parsing a member of the group takes every
\* member of the group off the list: what a flag earlier on the command
\* line required of the group is gone, what a later flag requires stays.
Required(av) ==
    LET given   == FlagsGiven(av)
        inGroup == IfActionArgs \cap given
    IN  UNION {IF inGroup # {} /\ av.action_last
                  THEN Requires(f) \ IfActionArgs
                  ELSE Requires(f) : f \in given}
           \cup (IF inGroup # {} THEN IfActionRequires ELSE {})

\* App::get_matches_safe returns Ok: every flag given is registered, no
\* flag is given with one it conflicts with, at most one member of the
\* group is given, and every flag on the list of required flags is given
\* or excused
ClapAccepts(app, av) ==
    LET given == FlagsGiven(av) IN
    /\ given \subseteq Range(app.args)
    /\ \A f \in given : ConflictsWith(f) \cap given = {}
    /\ Cardinality(IfActionArgs \cap given) <= 1
    /\ \A r \in Required(av) : r \in given \/ MissingRequiredOk(r, given)


\* ------------------------------------------------------------------------
\* lib.rs: Extcap::run
\* ------------------------------------------------------------------------
\* the step with extcap-dlts tested before extcap-interfaces
determine_stepDltsFirst(m) ==
    IF is_present(m, OPT_EXTCAP_DTLS) THEN StepQueryDlts
    ELSE IF is_present(m, OPT_EXTCAP_INTERFACES) THEN StepQueryIfaces
    ELSE IF is_present(m, OPT_EXTCAP_CONFIG)
         THEN StepConfigIface(is_present(m, OPT_EXTCAP_RELOAD_OPTION))
    ELSE IF is_present(m, OPT_CAPTURE)
         THEN StepCapture(is_present(m, OPT_EXTCAP_CONTROL_IN)
                            /\ is_present(m, OPT_EXTCAP_CONTROL_OUT))
    ELSE StepNone

\* run_till_capture, "Determine the step"
determine_step(m) ==
    IF is_present(m, OPT_EXTCAP_INTERFACES) THEN StepQueryIfaces
    ELSE IF is_present(m, OPT_EXTCAP_DTLS) THEN StepQueryDlts
    ELSE IF is_present(m, OPT_EXTCAP_CONFIG)
         THEN StepConfigIface(is_present(m, OPT_EXTCAP_RELOAD_OPTION))
    ELSE IF is_present(m, OPT_CAPTURE)
         THEN StepCapture(is_present(m, OPT_EXTCAP_CONTROL_IN)
                            /\ is_present(m, OPT_EXTCAP_CONTROL_OUT))
    ELSE StepNone

\* the descriptor records (one printed line each)
RecExtcap            == <<"extcap">>
RecInterface(ifc)    == <<"interface", ifc.interface>>
RecDlt(ifc)          == <<"dlt", ifc.interface>>
RecArg(a)            == <<"arg", a.number, a.name>>
RecArgValue(v)       == <<"value", "arg", v.arg, v.value>>
RecControl(c)        == <<"control", c.number>>
RecControlValue(v)   == <<"value", "control", v.control, v.value>>

RECURSIVE Flatten(_)
Flatten(ss) == IF ss = <<>> THEN <<>> ELSE Head(ss) \o Flatten(Tail(ss))

\* Extcap::print_version
print_version(ex) == <<RecExtcap>>

\* IfArg::print_arg: the arg record, then its value records
print_arg(a) == <<RecArg(a)>> \o [i \in 1..Len(a.vals) |-> RecArgValue(a.vals[i])]

\* IFace::print_arg_list
print_arg_list(ifc) == Flatten([i \in 1..Len(ifc.args) |-> print_arg(ifc.args[i])])

\* IFace::print_dlt_list
print_dlt_list(ifc) == <<RecDlt(ifc)>>

\* Extcap::print_iface_list
print_iface_list(ex) == [i \in 1..Len(ex.interfaces) |-> RecInterface(ex.interfaces[i])]

\* Control::print_control: the control record, then its value records
print_control(c) ==
    <<RecControl(c)>> \o [i \in 1..Len(c.vals) |-> RecControlValue(c.vals[i])]

\* Extcap::print_control_list
print_control_list(ex) ==
    Flatten([i \in 1..Len(ex.controls) |-> print_control(ex.controls[i])])

\* ExtcapResult<()> of run, and the process still running / aborted by a panic
Running     == <<"Running">>
Ok          == <<"Ok">>
Err(kind)   == <<"Err", kind>>
ErrInvalidInterface(name) == <<"Err", "InvalidInterface", name>>
Panicked    == <<"Panic">>


\* ------------------------------------------------------------------------
\* One process: registration (main), then Extcap::run
\* ------------------------------------------------------------------------
\* the interfaces a program registers: without arguments; with a
\* reloadable argument that has values and a plain one; with an argument
\* of an already used name and debug support; with an argument added
\* twice and an argument of its own named "debug"
IfCatalog ==
    {IFaceNew("ifA"),
     add_arg(add_arg(IFaceNew("ifB"), IfArg("port", TRUE, <<"p1">>)),
             IfArg("baud", FALSE, <<"9600", "19200">>)),
     IFaceConfigDebug(add_arg(IFaceNew("ifC"), IfArg("port", FALSE, <<>>))),
     add_arg(add_arg(add_arg(IFaceNew("ifD"), IfArg("port", FALSE, <<"p1">>)),
                     IfArg("port", FALSE, <<"p1">>)),
             IfArg("debug", FALSE, <<>>))}

IfNames  == {"ifA", "ifB", "ifD", "bogus"}
ArgNames == {"port", "nosuch"}

\* whether the parser's answer can depend on where the member of the group
\* stands on the command line: a flag given requires a member of the group
\* other than the one given
OrderMatters(av) ==
    /\ IfActionArgs \cap FlagsGiven(av) # {}
    /\ \E f \in FlagsGiven(av) :
          (Requires(f) \cap IfActionArgs) \ FlagsGiven(av) # {}

\* the command lines: the flags given and, where it matters, their order.
\* action_last says that the one of extcap-dlts, extcap-config, capture
\* given stands after the other flags; otherwise it stands before a flag
\* that requires a member of the group
Argvs ==
    {av \in [interfaces : BOOLEAN, interface : IfNames \cup {Absent},
             dlts : BOOLEAN, config : BOOLEAN, capture : BOOLEAN,
             filter : BOOLEAN, fifo : BOOLEAN,
             reload : ArgNames \cup {Absent}, control_in : BOOLEAN,
             control_out : BOOLEAN, action_last : BOOLEAN] :
        av.action_last => OrderMatters(av)}

\* what the listener's reload_option may return: None, or Some(values)
ReloadReturns ==
    {<<>>, <<<<>>>>, <<<<IfArgVal("n1")>>>>, <<<<IfArgVal("n1"), IfArgVal("n2")>>>>}

\* the command line before run reads it
NoArgv ==
    [interfaces |-> FALSE, interface |-> Absent, dlts |-> FALSE,
     config |-> FALSE, capture |-> FALSE, filter |-> FALSE, fifo |-> FALSE,
     reload |-> Absent, control_in |-> FALSE, control_out |-> FALSE,
     action_last |-> FALSE]

InitRun ==
    /\ extcap = ExtcapNew
    /\ argv = NoArgv
    /\ pc = "setup"
    /\ result = Running
    /\ stdout = <<>>
    /\ calls = <<>>
    /\ ctrl = "None"
    /\ res = Running

Matches == extcap.matches[1]

\* main: ex.add_interface(ifc)
SetupAddInterface(ifc) ==
    /\ pc = "setup"
    /\ Len(extcap.interfaces) < MaxIfaces
    /\ extcap' = add_interface(extcap, ifc)
    /\ UNCHANGED <<argv, pc, result, stdout, calls, ctrl, res>>
    /\ UNCHANGED codecVars
    /\ UNCHANGED <<pipeVars, fnVars>>

\* main: ex.add_control(control)
SetupAddControl(c) ==
    /\ pc = "setup"
    /\ Len(extcap.controls) < MaxControls
    /\ extcap' = add_control(extcap, c)
    /\ UNCHANGED <<argv, pc, result, stdout, calls, ctrl, res>>
    /\ UNCHANGED codecVars
    /\ UNCHANGED <<pipeVars, fnVars>>

\* main: ex.run(listener), in a process started with any command line
CallRun ==
    /\ pc = "setup"
    /\ argv' \in Argvs
    /\ pc' = "run"
    /\ UNCHANGED <<extcap, result, stdout, calls, ctrl, res>>
    /\ UNCHANGED codecVars
    /\ UNCHANGED <<pipeVars, fnVars>>

\* a parse failure that is returned only after the logging was set up
ParseFailAfterInitLog ==
    /\ pc = "run"
    /\ ~ClapAccepts(extcap.app, argv)
    /\ extcap' = [extcap EXCEPT !.app = NoneApp]
    /\ calls' = Append(calls, <<"init_log">>)
    /\ result' = Err("Clap")
    /\ pc' = "done"
    /\ UNCHANGED <<argv, stdout, ctrl, res>>
    /\ UNCHANGED codecVars
    /\ UNCHANGED <<pipeVars, fnVars>>

\* run_till_capture: get_matches_safe()? returns the clap error
ParseFail ==
    /\ pc = "run"
    /\ ~ClapAccepts(extcap.app, argv)
    /\ extcap' = [extcap EXCEPT !.app = NoneApp]
    /\ result' = Err("Clap")
    /\ pc' = "done"
    /\ UNCHANGED <<argv, stdout, calls, ctrl, res>>
    /\ UNCHANGED codecVars
    /\ UNCHANGED <<pipeVars, fnVars>>

\* run_till_capture: the matches are saved and the step is determined
ParseAndDetermineStep ==
    /\ pc = "run"
    /\ ClapAccepts(extcap.app, argv)
    /\ extcap' = [extcap EXCEPT !.app = NoneApp,
                                !.matches = SomeMatches(argv),
                                !.step = determine_step(argv)]
    /\ pc' = "init_log"
    /\ UNCHANGED <<argv, result, stdout, calls, ctrl, res>>
    /\ UNCHANGED codecVars
    /\ UNCHANGED <<pipeVars, fnVars>>

\* run_till_capture: listener.init_log
InitLog ==
    /\ pc = "init_log"
    /\ calls' = Append(calls, <<"init_log">>)
    /\ pc' = "update_interfaces"
    /\ UNCHANGED <<extcap, argv, result, stdout, ctrl, res>>
    /\ UNCHANGED codecVars
    /\ UNCHANGED <<pipeVars, fnVars>>

\* run_till_capture: listener.update_interfaces, a listener that adds nothing
UpdateInterfacesNone ==
    /\ pc = "update_interfaces"
    /\ calls' = Append(calls, <<"update_interfaces", "nothing", <<>>>>)
    /\ pc' = "dispatch"
    /\ UNCHANGED <<extcap, argv, result, stdout, ctrl, res>>
    /\ UNCHANGED codecVars
    /\ UNCHANGED <<pipeVars, fnVars>>

\* listener.update_interfaces calls extcap.add_interface(ifc) and no flag
\* has to be registered for it
UpdateInterfacesAdd(ifc) ==
    /\ pc = "update_interfaces"
    /\ Len(extcap.interfaces) < MaxIfaces
    /\ ~AddInterfaceNeedsApp(extcap, ifc)
    /\ extcap' = add_interface(extcap, ifc)
    /\ calls' = Append(calls, <<"update_interfaces", "add_interface", ifc>>)
    /\ pc' = "dispatch"
    /\ UNCHANGED <<argv, result, stdout, ctrl, res>>
    /\ UNCHANGED codecVars
    /\ UNCHANGED <<pipeVars, fnVars>>

\* an add_interface that leaves out the interface whose flags cannot be
\* registered any more, and lets the run go on
UpdateInterfacesIgnored(ifc) ==
    /\ pc = "update_interfaces"
    /\ Len(extcap.interfaces) < MaxIfaces
    /\ AddInterfaceNeedsApp(extcap, ifc)
    /\ calls' = Append(calls, <<"update_interfaces", "add_interface", ifc>>)
    /\ pc' = "dispatch"
    /\ UNCHANGED <<extcap, argv, result, stdout, ctrl, res>>
    /\ UNCHANGED codecVars
    /\ UNCHANGED <<pipeVars, fnVars>>

\* listener.update_interfaces calls extcap.add_interface(ifc) and a flag
\* has to be registered: take_app panics, the App was taken by the parse.
\* The first config function that reaches app_arg has set its bool before
\* the call (config_reload_opt, else config_debug); config_arg has changed
\* nothing when it panics, and the interface is not pushed
UpdateInterfacesPanic(ifc) ==
    /\ pc = "update_interfaces"
    /\ Len(extcap.interfaces) < MaxIfaces
    /\ AddInterfaceNeedsApp(extcap, ifc)
    /\ calls' = Append(calls, <<"update_interfaces", "add_interface", ifc>>)
    /\ extcap' = IF has_reloadable_arg(ifc) /\ ~extcap.reload_opt
                 THEN [extcap EXCEPT !.reload_opt = TRUE]
                 ELSE IF ifc.debug /\ ~extcap.ifc_debug
                 THEN [extcap EXCEPT !.ifc_debug = TRUE]
                 ELSE extcap
    /\ result' = Panicked
    /\ pc' = "done"
    /\ UNCHANGED <<argv, stdout, ctrl, res>>
    /\ UNCHANGED codecVars
    /\ UNCHANGED <<pipeVars, fnVars>>

\* listener.update_interfaces calls extcap.add_control(c) and the control
\* flags are registered already: the control joins the list
UpdateInterfacesAddControl(c) ==
    /\ pc = "update_interfaces"
    /\ Len(extcap.controls) < MaxControls
    /\ extcap.control
    /\ extcap' = add_control(extcap, c)
    /\ calls' = Append(calls, <<"update_interfaces", "add_control", c>>)
    /\ pc' = "dispatch"
    /\ UNCHANGED <<argv, result, stdout, ctrl, res>>
    /\ UNCHANGED codecVars
    /\ UNCHANGED <<pipeVars, fnVars>>

\* listener.update_interfaces calls extcap.add_control(c), the first
\* control of the program: config_control sets control and then reaches
\* take_app, which panics; the control does not join the list
UpdateInterfacesControlPanic(c) ==
    /\ pc = "update_interfaces"
    /\ ~extcap.control
    /\ calls' = Append(calls, <<"update_interfaces", "add_control", c>>)
    /\ extcap' = [extcap EXCEPT !.control = TRUE]
    /\ result' = Panicked
    /\ pc' = "done"
    /\ UNCHANGED <<argv, stdout, ctrl, res>>
    /\ UNCHANGED codecVars
    /\ UNCHANGED <<pipeVars, fnVars>>

\* listener.update_interfaces calls extcap.version, author, about, usage or
\* after_help: update_app reaches take_app, which panics
UpdateInterfacesUpdateApp(setter) ==
    /\ pc = "update_interfaces"
    /\ calls' = Append(calls, <<"update_interfaces", setter, <<>>>>)
    /\ result' = Panicked
    /\ pc' = "done"
    /\ UNCHANGED <<extcap, argv, stdout, ctrl, res>>
    /\ UNCHANGED codecVars
    /\ UNCHANGED <<pipeVars, fnVars>>


\* run_till_capture: value_of(OPT_EXTCAP_INTERFACE) and get_if_idx
IfIdx == get_if_idx(extcap, Matches.interface)

Finish(r) ==
    /\ result' = r
    /\ pc' = "done"

\* a QueryIfaces that prints the controls before the interfaces
QueryIfacesControlsFirst ==
    /\ pc = "dispatch"
    /\ extcap.step = StepQueryIfaces
    /\ stdout' = stdout \o print_version(extcap) \o print_control_list(extcap)
                        \o print_iface_list(extcap)
    /\ Finish(Ok)
    /\ UNCHANGED <<extcap, argv, calls, ctrl, res>>
    /\ UNCHANGED codecVars
    /\ UNCHANGED <<pipeVars, fnVars>>

\* run_till_capture: step QueryIfaces
QueryIfaces ==
    /\ pc = "dispatch"
    /\ extcap.step = StepQueryIfaces
    /\ stdout' = stdout \o print_version(extcap) \o print_iface_list(extcap)
                        \o print_control_list(extcap)
    /\ Finish(Ok)
    /\ UNCHANGED <<extcap, argv, calls, ctrl, res>>
    /\ UNCHANGED codecVars
    /\ UNCHANGED <<pipeVars, fnVars>>

\* run_till_capture: no extcap-interface value
MissingInterface ==
    /\ pc = "dispatch"
    /\ extcap.step # StepQueryIfaces
    /\ Matches.interface = Absent
    /\ Finish(Err("MissingInterface"))
    /\ UNCHANGED <<extcap, argv, stdout, calls, ctrl, res>>
    /\ UNCHANGED codecVars
    /\ UNCHANGED <<pipeVars, fnVars>>

\* the interface lookup placed after the version record is printed
InvalidInterfaceAfterVersion ==
    /\ pc = "dispatch"
    /\ extcap.step # StepQueryIfaces
    /\ Matches.interface # Absent
    /\ IfIdx = -1
    /\ stdout' = stdout \o print_version(extcap)
    /\ Finish(ErrInvalidInterface(Matches.interface))
    /\ UNCHANGED <<extcap, argv, calls, ctrl, res>>
    /\ UNCHANGED codecVars
    /\ UNCHANGED <<pipeVars, fnVars>>

\* run_till_capture: the extcap-interface value names no interface
InvalidInterface ==
    /\ pc = "dispatch"
    /\ extcap.step # StepQueryIfaces
    /\ Matches.interface # Absent
    /\ IfIdx = -1
    /\ Finish(ErrInvalidInterface(Matches.interface))
    /\ UNCHANGED <<extcap, argv, stdout, calls, ctrl, res>>
    /\ UNCHANGED codecVars
    /\ UNCHANGED <<pipeVars, fnVars>>

\* the interface was found: the match on the step is reached
Dispatch(step_kind) ==
    /\ pc = "dispatch"
    /\ extcap.step # StepQueryIfaces
    /\ Matches.interface # Absent
    /\ IfIdx # -1
    /\ extcap.step[1] = step_kind

\* run_till_capture: step QueryDlts
QueryDlts ==
    /\ Dispatch("QueryDlts")
    /\ stdout' = stdout \o print_dlt_list(get_if(extcap, IfIdx))
    /\ Finish(Ok)
    /\ UNCHANGED <<extcap, argv, calls, ctrl, res>>
    /\ UNCHANGED codecVars
    /\ UNCHANGED <<pipeVars, fnVars>>

\* run_till_capture: step ConfigIface without extcap-reload-option
ConfigIface ==
    /\ Dispatch("ConfigIface")
    /\ Matches.reload = Absent
    /\ stdout' = stdout \o print_arg_list(get_if(extcap, IfIdx))
    /\ Finish(Ok)
    /\ UNCHANGED <<extcap, argv, calls, ctrl, res>>
    /\ UNCHANGED codecVars
    /\ UNCHANGED <<pipeVars, fnVars>>

\* a reload of an absent argument that is returned as an error
ReloadOptionAbsentErr ==
    /\ Dispatch("ConfigIface")
    /\ Matches.reload # Absent
    /\ get_arg_idx(get_if(extcap, IfIdx), Matches.reload) = -1
    /\ Finish(Err("UnknownStepRequested"))
    /\ UNCHANGED <<extcap, argv, stdout, calls, ctrl, res>>
    /\ UNCHANGED codecVars
    /\ UNCHANGED <<pipeVars, fnVars>>

\* Extcap::reload_option: the interface has no argument of that name
ReloadOptionAbsent ==
    /\ Dispatch("ConfigIface")
    /\ Matches.reload # Absent
    /\ get_arg_idx(get_if(extcap, IfIdx), Matches.reload) = -1
    /\ Finish(Ok)
    /\ UNCHANGED <<extcap, argv, stdout, calls, ctrl, res>>
    /\ UNCHANGED codecVars
    /\ UNCHANGED <<pipeVars, fnVars>>

\* Extcap::reload_option: listener.reload_option returns ret, the values
\* are replaced if it is Some, and the argument is printed
ReloadOption(ret) ==
    /\ Dispatch("ConfigIface")
    /\ Matches.reload # Absent
    /\ LET aidx == get_arg_idx(get_if(extcap, IfIdx), Matches.reload)
           arg  == get_if(extcap, IfIdx).args[aidx + 1]
           narg == IF ret = <<>> THEN arg ELSE ArgReloadOption(arg, ret[1])
       IN  /\ aidx # -1
           /\ calls' = Append(calls, <<"reload_option", arg.name, ret>>)
           /\ extcap' = [extcap EXCEPT !.interfaces[IfIdx + 1].args[aidx + 1] = narg]
           /\ stdout' = stdout \o print_arg(narg)
    /\ Finish(Ok)
    /\ UNCHANGED <<argv, ctrl, res>>
    /\ UNCHANGED codecVars
    /\ UNCHANGED <<pipeVars, fnVars>>

\* run_till_capture: step Capture, run goes on to Extcap::capture
ToCapture ==
    /\ Dispatch("Capture")
    /\ pc' = "capture"
    /\ UNCHANGED <<extcap, argv, result, stdout, calls, ctrl, res>>
    /\ UNCHANGED codecVars
    /\ UNCHANGED <<pipeVars, fnVars>>

\* a run that reports the missing step as a missing interface
UnknownStepAsMissing ==
    /\ Dispatch("None")
    /\ Finish(Err("MissingInterface"))
    /\ UNCHANGED <<extcap, argv, stdout, calls, ctrl, res>>
    /\ UNCHANGED codecVars
    /\ UNCHANGED <<pipeVars, fnVars>>

\* run_till_capture: any other step
UnknownStep ==
    /\ Dispatch("None")
    /\ Finish(Err("UnknownStepRequested"))
    /\ UNCHANGED <<extcap, argv, stdout, calls, ctrl, res>>
    /\ UNCHANGED codecVars
    /\ UNCHANGED <<pipeVars, fnVars>>

\* a capture that gives up when a control pipe cannot be opened
CaptureControlPipeFatal(opened) ==
    /\ pc = "capture"
    /\ IF Matches.control_in /\ Matches.control_out /\ ~opened
       THEN /\ calls' = Append(calls, <<"warn", "create_control_pipe">>)
            /\ Finish(Err("Io"))
            /\ UNCHANGED ctrl
       ELSE /\ ctrl' = IF Matches.control_in /\ Matches.control_out
                       THEN "New" ELSE "None"
            /\ pc' = "capture_header"
            /\ UNCHANGED <<calls, result>>
    /\ UNCHANGED <<extcap, argv, stdout, res>>
    /\ UNCHANGED codecVars
    /\ UNCHANGED <<pipeVars, fnVars>>

\* Extcap::capture: the control pipe is created when both flags have a
\* value and both files open (opened); when a file does not open the
\* failure is logged (warn!) and there is no control pipe, as when a flag is
\* missing
CaptureControlPipe(opened) ==
    /\ pc = "capture"
    /\ ctrl' = IF Matches.control_in /\ Matches.control_out /\ opened
               THEN "New" ELSE "None"
    /\ calls' = IF Matches.control_in /\ Matches.control_out /\ ~opened
                THEN Append(calls, <<"warn", "create_control_pipe">>)
                ELSE calls
    /\ pc' = "capture_header"
    /\ UNCHANGED <<extcap, argv, result, stdout, res>>
    /\ UNCHANGED codecVars
    /\ UNCHANGED <<pipeVars, fnVars>>

\* Extcap::capture: listener.capture_header
CaptureHeader ==
    /\ pc = "capture_header"
    /\ calls' = Append(calls, <<"capture_header">>)
    /\ pc' = "pcap_writer"
    /\ UNCHANGED <<extcap, argv, result, stdout, ctrl, res>>
    /\ UNCHANGED codecVars
    /\ UNCHANGED <<pipeVars, fnVars>>

\* a capture that opens the sink only after the engine was started
PcapWriterFailAfterStart ==
    /\ pc = "pcap_writer"
    /\ IF ctrl = "New"
       THEN ctrl' = "Started" /\ calls' = Append(calls, <<"start">>)
       ELSE UNCHANGED <<ctrl, calls>>
    /\ Finish(Err("Io"))
    /\ UNCHANGED <<extcap, argv, stdout, res>>
    /\ UNCHANGED codecVars
    /\ UNCHANGED <<pipeVars, fnVars>>

\* Extcap::capture: create_pcap_writer(fifo, ph)? fails
PcapWriterFail ==
    /\ pc = "pcap_writer"
    /\ Finish(Err("Io"))
    /\ UNCHANGED <<extcap, argv, stdout, calls, ctrl, res>>
    /\ UNCHANGED codecVars
    /\ UNCHANGED <<pipeVars, fnVars>>

\* Extcap::capture: create_pcap_writer(fifo, ph)? succeeds
PcapWriterOk ==
    /\ pc = "pcap_writer"
    /\ pc' = "start"
    /\ UNCHANGED <<extcap, argv, result, stdout, calls, ctrl, res>>
    /\ UNCHANGED codecVars
    /\ UNCHANGED <<pipeVars, fnVars>>

\* Extcap::capture: control_pipe.as_mut().map(ControlPipe::start)
CaptureStart ==
    /\ pc = "start"
    /\ IF ctrl = "New"
       THEN ctrl' = "Started" /\ calls' = Append(calls, <<"start">>)
       ELSE UNCHANGED <<ctrl, calls>>
    /\ pc' = "capturing"
    /\ UNCHANGED <<extcap, argv, result, stdout, res>>
    /\ UNCHANGED codecVars
    /\ UNCHANGED <<pipeVars, fnVars>>

\* a capture that returns the routine's error at once, before stop()
CaptureWithCtrlTry(r) ==
    /\ pc = "capturing"
    /\ calls' = Append(calls, <<"capture_with_ctrl", ctrl = "Started">>)
    /\ res' = r
    /\ IF r = Ok
       THEN pc' = "stop" /\ UNCHANGED result
       ELSE Finish(r)
    /\ UNCHANGED <<extcap, argv, stdout, ctrl>>
    /\ UNCHANGED codecVars
    /\ UNCHANGED <<pipeVars, fnVars>>

\* Extcap::capture: listener.capture_with_ctrl returns r
CaptureWithCtrl(r) ==
    /\ pc = "capturing"
    /\ calls' = Append(calls, <<"capture_with_ctrl", ctrl = "Started">>)
    /\ res' = r
    /\ pc' = "stop"
    /\ UNCHANGED <<extcap, argv, result, stdout, ctrl>>
    /\ UNCHANGED codecVars
    /\ UNCHANGED <<pipeVars, fnVars>>

\* a capture that returns Ok once the engine is stopped
CaptureStopOk ==
    /\ pc = "stop"
    /\ IF ctrl = "Started"
       THEN ctrl' = "Stopped" /\ calls' = Append(calls, <<"stop">>)
       ELSE UNCHANGED <<ctrl, calls>>
    /\ Finish(Ok)
    /\ UNCHANGED <<extcap, argv, stdout, res>>
    /\ UNCHANGED codecVars
    /\ UNCHANGED <<pipeVars, fnVars>>

\* Extcap::capture: cp.stop() if there is a control pipe, then res is returned
CaptureStop ==
    /\ pc = "stop"
    /\ IF ctrl = "Started"
       THEN ctrl' = "Stopped" /\ calls' = Append(calls, <<"stop">>)
       ELSE UNCHANGED <<ctrl, calls>>
    /\ Finish(res)
    /\ UNCHANGED <<extcap, argv, stdout, res>>
    /\ UNCHANGED codecVars
    /\ UNCHANGED <<pipeVars, fnVars>>

NextRun ==
    \/ \E ifc \in IfCatalog : SetupAddInterface(ifc)
    \/ SetupAddControl(Control(<<"c1">>))
    \/ CallRun
    \/ ParseFail
    \/ ParseAndDetermineStep
    \/ InitLog
    \/ UpdateInterfacesNone
    \/ \E ifc \in IfCatalog : UpdateInterfacesAdd(ifc)
    \/ \E ifc \in IfCatalog : UpdateInterfacesPanic(ifc)
    \/ UpdateInterfacesAddControl(Control(<<"c1">>))
    \/ UpdateInterfacesControlPanic(Control(<<"c1">>))
    \/ \E setter \in {"version", "author", "about", "usage", "after_help"} :
          UpdateInterfacesUpdateApp(setter)
    \/ QueryIfaces
    \/ MissingInterface
    \/ InvalidInterface
    \/ QueryDlts
    \/ ConfigIface
    \/ ReloadOptionAbsent
    \/ \E ret \in ReloadReturns : ReloadOption(ret)
    \/ ToCapture
    \/ UnknownStep
    \/ \E opened \in BOOLEAN : CaptureControlPipe(opened)
    \/ CaptureHeader
    \/ PcapWriterFail
    \/ PcapWriterOk
    \/ CaptureStart
    \/ \E r \in {Ok, Err("UserError")} : CaptureWithCtrl(r)
    \/ CaptureStop

\* ------------------------------------------------------------------------
\* control_pipe_runtime.rs: ControlPipeRuntime, thread_in, thread_out
\* ------------------------------------------------------------------------
\* the frame of the k-th message of a direction
Frame(k) == encode(ControlMsg(k, Named("Set"), <<>>), <<>>)

\* a header that does not start with the sync byte
BadHeader == <<0, 0, 0, 2>>

\* the control numbers of a sequence of messages
Nums(ms) == [i \in 1..Len(ms) |-> ms[i].ctrl_num]

\* a call on the engine panicked: its caller unwinds and makes no further
\* call; the executor that polls the task, the blocking pool, the capture
\* routine and the peer are not ended by it
Aborted == api[3] = "panic"

\* the caller still owns the ControlPipeRuntime (stop takes it by value)
Alive == api[1] # "stop" /\ ~Aborted

\* a pump that returned or was dropped: its oneshot Receiver and its end
\* of the queue are dropped
Gone == {"exited", "done", "error", "eof_error", "dropped"}

\* mpsc::channel(PIPE_LEN): a Sender is parked once the queue holds more
\* than PIPE_LEN messages; poll_ready is Pending and try_send is Full
Parked(q) == Len(q) > PIPE_LEN

\* ControlPipeRuntime::new
InitPipe ==
    /\ state = "New"
    /\ tsk = "None"
    /\ api = <<"new", "None", "ok">>
    /\ stop_in = "none"
    /\ stop_out = "none"
    /\ pump_in = "none"
    /\ pump_out = "none"
    /\ pipe_in = <<>>
    /\ peer_in = "open"
    /\ rbuf = <<>>
    /\ item = <<>>
    /\ q_in = <<>>
    /\ q_out = <<>>
    /\ cur = <<>>
    /\ wire_out = <<>>
    /\ wstall = FALSE
    /\ lst = "none"
    /\ arrived = <<>>
    /\ decoded = <<>>
    /\ recv = <<>>
    /\ sub = <<>>
    /\ wlog = <<>>
    /\ rjob = <<>>
    /\ wjob = <<>>
    /\ at_stop = <<>>

\* ControlPipeRuntime::start
Start ==
    /\ Alive
    /\ IF state = "New"
       THEN /\ state' = "Started"
            /\ tsk' = "Stored"
            /\ stop_in' = "armed"
            /\ stop_out' = "armed"
            /\ pump_in' = "stored"
            /\ pump_out' = "stored"
            /\ lst' = "running"
            /\ api' = <<"start", state, "ok">>
       ELSE /\ state' = "None"
            /\ stop_in' = IF state = "Started" THEN "dropped" ELSE stop_in
            /\ stop_out' = IF state = "Started" THEN "dropped" ELSE stop_out
            /\ api' = <<"start", state, "panic">>
            /\ UNCHANGED <<tsk, pump_in, pump_out, lst>>
    /\ UNCHANGED <<pipe_in, peer_in, rbuf, item, q_in, q_out, cur, wire_out,
                   wstall, arrived, decoded, recv, sub, wlog>>
    /\ UNCHANGED <<codecVars, runVars, fnVars, rjob, wjob, at_stop>>

\* ControlPipeRuntime::run_task, and the future handed to an executor
RunTask ==
    /\ Alive
    /\ IF tsk = "Stored"
       THEN /\ tsk' = "Taken"
            /\ pump_in' = "idle"
            /\ pump_out' = "idle"
            /\ api' = <<"run_task", state, "ok">>
       ELSE /\ api' = <<"run_task", state, "panic">>
            /\ UNCHANGED <<tsk, pump_in, pump_out>>
    /\ UNCHANGED <<state, stop_in, stop_out, pipe_in, peer_in, rbuf, item, q_in,
                   q_out, cur, wire_out, wstall, lst, arrived, decoded, recv,
                   sub, wlog>>
    /\ UNCHANGED <<codecVars, runVars, fnVars, rjob, wjob, at_stop>>

\* ControlPipeRuntime::stop up to stop_in.send(()).unwrap().  state.take()
\* moved both Senders into the call; a send consumes its Sender, and the
\* unwind of a panic at this send drops the second Sender unsent.  The
\* call goes on with StopOut; the task may be polled in between
Stop ==
    /\ Alive
    /\ state' = "None"
    /\ IF state # "Started"
       THEN /\ api' = <<"stop", state, "ignored">>
            /\ UNCHANGED <<stop_in, stop_out>>
       ELSE IF pump_in \in Gone
       THEN /\ api' = <<"stop", state, "panic">>
            /\ stop_in' = "dropped"
            /\ stop_out' = "dropped"
       ELSE /\ api' = <<"stop", state, "sending">>
            /\ stop_in' = "sent"
            /\ UNCHANGED stop_out
    /\ UNCHANGED <<tsk, pump_in, pump_out, q_out>>
    /\ UNCHANGED <<pipe_in, peer_in, rbuf, item, q_in, cur, wire_out, wstall,
                   lst, arrived, decoded, recv, sub, wlog>>
    /\ at_stop' = <<decoded>>
    /\ UNCHANGED <<codecVars, runVars, fnVars, rjob, wjob>>

\* ControlPipeRuntime::stop from stop_out.send(()).unwrap() to its end,
\* where self is dropped and with it a task that run_task never took
StopOut ==
    /\ api = <<"stop", "Started", "sending">>
    /\ IF pump_out \in Gone
       THEN /\ api' = <<"stop", "Started", "panic">>
            /\ stop_out' = "dropped"
            /\ UNCHANGED <<tsk, pump_in, pump_out, q_out>>
       ELSE /\ api' = <<"stop", "Started", "ok">>
            /\ stop_out' = "sent"
            /\ IF tsk = "Stored"
               THEN /\ tsk' = "Dropped"
                    /\ pump_in' = "dropped"
                    /\ pump_out' = "dropped"
                    /\ q_out' = <<>>
               ELSE UNCHANGED <<tsk, pump_in, pump_out, q_out>>
    /\ UNCHANGED <<state, stop_in, pipe_in, peer_in, rbuf, item, q_in, cur,
                   wire_out, wstall, lst, arrived, decoded, recv, sub, wlog>>
    /\ UNCHANGED <<codecVars, runVars, fnVars, rjob, wjob, at_stop>>

\* the capture routine: Receiver::next on its end of the inbound queue
Recv ==
    /\ lst = "running"
    /\ q_in # <<>>
    /\ recv' = Append(recv, Head(q_in).ctrl_num)
    /\ q_in' = Tail(q_in)
    /\ UNCHANGED <<state, tsk, api, stop_in, stop_out, pump_in, pump_out,
                   pipe_in, peer_in, rbuf, item, q_out, cur, wire_out, wstall,
                   lst, arrived, decoded, sub, wlog>>
    /\ UNCHANGED <<codecVars, runVars, fnVars, rjob, wjob, at_stop>>

\* the capture routine: Sender::try_send on its end of the outbound queue
\* returns Ok (Full and Disconnected leave everything as it is)
Submit ==
    /\ lst = "running"
    /\ Len(sub) < MaxOut
    /\ pump_out \notin Gone
    /\ ~Parked(q_out)
    /\ q_out' = Append(q_out, ControlMsg(Len(sub) + 1, Named("Set"), <<>>))
    /\ sub' = Append(sub, Len(sub) + 1)
    /\ UNCHANGED <<state, tsk, api, stop_in, stop_out, pump_in, pump_out,
                   pipe_in, peer_in, rbuf, item, q_in, cur, wire_out, wstall,
                   lst, arrived, decoded, recv, wlog>>
    /\ UNCHANGED <<codecVars, runVars, fnVars, rjob, wjob, at_stop>>

\* the capture routine returns: its Receiver is dropped (the queue is
\* closed and drained) and its Sender is dropped
ListenerReturn ==
    /\ lst = "running"
    /\ lst' = "returned"
    /\ q_in' = <<>>
    /\ UNCHANGED <<state, tsk, api, stop_in, stop_out, pump_in, pump_out,
                   pipe_in, peer_in, rbuf, item, q_out, cur, wire_out, wstall,
                   arrived, decoded, recv, sub, wlog>>
    /\ UNCHANGED <<codecVars, runVars, fnVars, rjob, wjob, at_stop>>

\* the peer writes the next frame to the read pipe
PeerWriteFrame ==
    /\ peer_in = "open"
    /\ Len(arrived) < MaxIn
    /\ pipe_in' = pipe_in \o Frame(Len(arrived) + 1)
    /\ arrived' = Append(arrived, Len(arrived) + 1)
    /\ UNCHANGED <<state, tsk, api, stop_in, stop_out, pump_in, pump_out,
                   peer_in, rbuf, item, q_in, q_out, cur, wire_out, wstall, lst,
                   decoded, recv, sub, wlog>>
    /\ UNCHANGED <<codecVars, runVars, fnVars, rjob, wjob, at_stop>>

\* the peer writes a header without the sync byte, or closes its end
PeerEnd(how) ==
    /\ peer_in = "open"
    /\ peer_in' = how
    /\ pipe_in' = IF how = "garbled" THEN pipe_in \o BadHeader ELSE pipe_in
    /\ UNCHANGED <<state, tsk, api, stop_in, stop_out, pump_in, pump_out, rbuf,
                   item, q_in, q_out, cur, wire_out, wstall, lst, arrived,
                   decoded, recv, sub, wlog>>
    /\ UNCHANGED <<codecVars, runVars, fnVars, rjob, wjob, at_stop>>

\* the peer stops or resumes reading the write pipe
PeerStall ==
    /\ wstall' = ~wstall
    /\ UNCHANGED <<state, tsk, api, stop_in, stop_out, pump_in, pump_out,
                   pipe_in, peer_in, rbuf, item, q_in, q_out, cur, wire_out, lst,
                   arrived, decoded, recv, sub, wlog>>
    /\ UNCHANGED <<codecVars, runVars, fnVars, rjob, wjob, at_stop>>

\* thread_in: what a poll of the forward of the FramedRead into the queue
\* can do: hand the held message to the queue (or find the Receiver
\* dropped), decode the buffer, hand a read to the File, or take the
\* result of the read the blocking thread has finished
InCanStep ==
    \/ item # <<>> /\ (lst = "returned" \/ ~Parked(q_in))
    \/ item = <<>> /\ (decode(rbuf).kind # "None" \/ rjob # <<"reading">>)

\* what is left of the read of the File when thread_in returns: a read the
\* blocking thread is still running goes on without the File, the result
\* of a finished one is dropped
Orphan(job) == IF job = <<"reading">> THEN job ELSE <<>>

\* thread_in is polled: future::select(stop, task) polls stop first and
\* returns when the oneshot was sent or its Sender dropped, which drops
\* the forward with the message it holds, the FramedRead with its buffer
\* and the File, not the read its blocking thread is running
InPollBegin ==
    /\ pump_in = "idle"
    /\ stop_in # "armed" \/ InCanStep
    /\ IF stop_in # "armed"
       THEN /\ pump_in' = "exited"
            /\ item' = <<>>
            /\ rbuf' = <<>>
            /\ rjob' = Orphan(rjob)
       ELSE /\ pump_in' = "polling"
            /\ UNCHANGED <<item, rbuf, rjob>>
    /\ UNCHANGED <<state, tsk, api, stop_in, stop_out, pump_out, pipe_in,
                   peer_in, q_in, q_out, cur, wire_out, wstall, lst, arrived,
                   decoded, recv, sub, wlog>>
    /\ UNCHANGED <<codecVars, runVars, fnVars, wjob, at_stop>>

\* a forward that gives up the held message when the queue is full
InSendOrDrop ==
    /\ pump_in = "polling"
    /\ item # <<>>
    /\ IF lst = "returned"
       THEN /\ pump_in' = "done"
            /\ rbuf' = <<>>
            /\ UNCHANGED q_in
       ELSE /\ q_in' = IF Parked(q_in) THEN q_in ELSE Append(q_in, item[1])
            /\ UNCHANGED <<pump_in, rbuf>>
    /\ item' = <<>>
    /\ UNCHANGED <<state, tsk, api, stop_in, stop_out, pump_out, pipe_in,
                   peer_in, q_out, cur, wire_out, wstall, lst, arrived, decoded,
                   recv, sub, wlog>>
    /\ UNCHANGED <<codecVars, runVars, fnVars, rjob, wjob, at_stop>>

\* thread_in, Forward: the held message goes to the queue once the Sender
\* is ready; a dropped Receiver is a sink error that ends the pump
InSend ==
    /\ pump_in = "polling"
    /\ item # <<>>
    /\ lst = "returned" \/ ~Parked(q_in)
    /\ IF lst = "returned"
       THEN /\ pump_in' = "done"
            /\ rbuf' = <<>>
            /\ UNCHANGED q_in
       ELSE /\ q_in' = Append(q_in, item[1])
            /\ UNCHANGED <<pump_in, rbuf>>
    /\ item' = <<>>
    /\ UNCHANGED <<state, tsk, api, stop_in, stop_out, pump_out, pipe_in,
                   peer_in, q_out, cur, wire_out, wstall, lst, arrived, decoded,
                   recv, sub, wlog>>
    /\ UNCHANGED <<codecVars, runVars, fnVars, rjob, wjob, at_stop>>

\* thread_in, FramedRead: decode returns a message, which Forward holds,
\* or an error, which ends the pump
InDecode ==
    /\ pump_in = "polling"
    /\ item = <<>>
    /\ LET r == decode(rbuf) IN
       /\ r.kind # "None"
       /\ IF r.kind = "Some"
          THEN /\ item' = <<r.msg>>
               /\ rbuf' = r.rest
               /\ decoded' = Append(decoded, r.msg.ctrl_num)
               /\ UNCHANGED pump_in
          ELSE /\ pump_in' = "error"
               /\ rbuf' = <<>>
               /\ UNCHANGED <<item, decoded>>
    /\ UNCHANGED <<state, tsk, api, stop_in, stop_out, pump_out, pipe_in,
                   peer_in, q_in, q_out, cur, wire_out, wstall, lst, arrived,
                   recv, sub, wlog>>
    /\ UNCHANGED <<codecVars, runVars, fnVars, rjob, wjob, at_stop>>

\* thread_in, FramedRead: decode needs more data and the File is asked to
\* read: poll_read hands the read to a blocking thread and is Pending
InReadBegin ==
    /\ pump_in = "polling"
    /\ item = <<>>
    /\ decode(rbuf).kind = "None"
    /\ rjob = <<>>
    /\ rjob' = <<"reading">>
    /\ UNCHANGED <<state, tsk, api, stop_in, stop_out, pump_in, pump_out,
                   pipe_in, peer_in, rbuf, item, q_in, q_out, cur, wire_out,
                   wstall, lst, arrived, decoded, recv, sub, wlog>>
    /\ UNCHANGED <<codecVars, runVars, fnVars, wjob, at_stop>>

\* the blocking thread of tokio::fs::File: its read returns once the pipe
\* has bytes, with every byte in it or only the first ReadChunk, or with
\* 0 bytes at the end of the pipe; the bytes leave the pipe whether
\* thread_in is polled or not, and are lost when it has returned
InRead(whole) ==
    /\ rjob = <<"reading">>
    /\ IF pipe_in # <<>>
       THEN /\ whole \/ Len(pipe_in) > ReadChunk
            /\ LET n == IF whole THEN Len(pipe_in) ELSE ReadChunk IN
               /\ rjob' = IF pump_in \in Gone THEN <<>>
                          ELSE <<"read", Take(pipe_in, n)>>
               /\ pipe_in' = Drop(pipe_in, n)
       ELSE /\ whole
            /\ peer_in = "closed"
            /\ rjob' = IF pump_in \in Gone THEN <<>> ELSE <<"eof">>
            /\ UNCHANGED pipe_in
    /\ UNCHANGED <<state, tsk, api, stop_in, stop_out, pump_in, pump_out,
                   peer_in, rbuf, item, q_in, q_out, cur, wire_out, wstall, lst,
                   arrived, decoded, recv, sub, wlog>>
    /\ UNCHANGED <<codecVars, runVars, fnVars, wjob, at_stop>>

\* thread_in, FramedRead: a poll finds the read finished and moves its
\* bytes to the buffer
InReadReturn ==
    /\ pump_in = "polling"
    /\ rjob # <<>>
    /\ rjob[1] = "read"
    /\ rbuf' = rbuf \o rjob[2]
    /\ rjob' = <<>>
    /\ UNCHANGED <<state, tsk, api, stop_in, stop_out, pump_in, pump_out,
                   pipe_in, peer_in, item, q_in, q_out, cur, wire_out, wstall,
                   lst, arrived, decoded, recv, sub, wlog>>
    /\ UNCHANGED <<codecVars, runVars, fnVars, wjob, at_stop>>

\* thread_in, FramedRead: the read returned 0 bytes, the pipe is at its
\* end: with an empty buffer the stream ends and the forward closes the
\* queue, with bytes remaining the stream ends with an error
InEof ==
    /\ pump_in = "polling"
    /\ rjob = <<"eof">>
    /\ pump_in' = IF rbuf = <<>> THEN "done" ELSE "eof_error"
    /\ rbuf' = <<>>
    /\ rjob' = <<>>
    /\ UNCHANGED <<state, tsk, api, stop_in, stop_out, pump_out, pipe_in,
                   peer_in, item, q_in, q_out, cur, wire_out, wstall, lst,
                   arrived, decoded, recv, sub, wlog>>
    /\ UNCHANGED <<codecVars, runVars, fnVars, wjob, at_stop>>

\* thread_in: the poll returns Pending
InPollEnd ==
    /\ pump_in = "polling"
    /\ ~InCanStep
    /\ pump_in' = "idle"
    /\ UNCHANGED <<state, tsk, api, stop_in, stop_out, pump_out, pipe_in,
                   peer_in, rbuf, item, q_in, q_out, cur, wire_out, wstall, lst,
                   arrived, decoded, recv, sub, wlog>>
    /\ UNCHANGED <<codecVars, runVars, fnVars, rjob, wjob, at_stop>>

\* thread_out: what a poll of the while-let loop can do: take the next
\* message (or find every Sender dropped), or return from the send whose
\* write the blocking thread has finished
OutCanStep ==
    \/ cur = <<>> /\ (q_out # <<>> \/ lst = "returned")
    \/ cur # <<>> /\ wjob # <<>> /\ wjob[1] # "writing"

\* thread_out is polled: future::select(stop, task) polls stop first; its
\* return drops the loop with the message being sent and the FramedWrite,
\* not the write the blocking thread is running
OutPollBegin ==
    /\ pump_out = "idle"
    /\ stop_out # "armed" \/ OutCanStep
    /\ IF stop_out # "armed"
       THEN /\ pump_out' = "exited"
            /\ cur' = <<>>
            /\ q_out' = <<>>
       ELSE /\ pump_out' = "polling"
            /\ UNCHANGED <<cur, q_out>>
    /\ UNCHANGED <<state, tsk, api, stop_in, stop_out, pump_in, pipe_in, peer_in,
                   rbuf, item, q_in, wire_out, wstall, lst, arrived, decoded,
                   recv, sub, wlog>>
    /\ UNCHANGED <<codecVars, runVars, fnVars, rjob, wjob, at_stop>>

\* thread_out: receiver.next() returns the next message and strm.send(msg)
\* is polled at once: the frame is encoded and handed to the File, whose
\* poll_write takes the bytes for a blocking thread and returns Ok, and
\* send waits in flush; or next() returns None once the queue is empty and
\* every Sender is dropped, which ends the loop
OutTake ==
    /\ pump_out = "polling"
    /\ cur = <<>>
    /\ q_out # <<>> \/ lst = "returned"
    /\ IF q_out # <<>>
       THEN /\ cur' = <<Head(q_out)>>
            /\ wjob' = <<"writing", Head(q_out)>>
            /\ q_out' = Tail(q_out)
            /\ UNCHANGED pump_out
       ELSE /\ pump_out' = "done"
            /\ UNCHANGED <<cur, wjob, q_out>>
    /\ UNCHANGED <<state, tsk, api, stop_in, stop_out, pump_in, pipe_in, peer_in,
                   rbuf, item, q_in, wire_out, wstall, lst, arrived, decoded,
                   recv, sub, wlog>>
    /\ UNCHANGED <<codecVars, runVars, fnVars, rjob, at_stop>>

\* the blocking thread of tokio::fs::File: the write of the frame it was
\* handed completes once the peer reads the write pipe, and the frame is on
\* the pipe, or it fails; thread_out need not be alive for it
OutWrite(ok) ==
    /\ wjob # <<>>
    /\ wjob[1] = "writing"
    /\ ~wstall
    /\ wire_out' = IF ok THEN encode(wjob[2], wire_out) ELSE wire_out
    /\ wjob' = <<IF ok THEN "ok" ELSE "fail", wjob[2]>>
    /\ UNCHANGED <<state, tsk, api, stop_in, stop_out, pump_in, pump_out,
                   pipe_in, peer_in, rbuf, item, q_in, q_out, cur, wstall, lst,
                   arrived, decoded, recv, sub, wlog>>
    /\ UNCHANGED <<codecVars, runVars, fnVars, rjob, at_stop>>

\* thread_out: the flush of strm.send(msg) finds the write finished and
\* send returns its Ok, or its Err, which is logged, and the loop goes on
\* to the next message
OutSendReturn ==
    /\ pump_out = "polling"
    /\ cur # <<>>
    /\ wjob # <<>>
    /\ wjob[1] # "writing"
    /\ wlog' = Append(wlog, <<wjob[1], cur[1].ctrl_num>>)
    /\ cur' = <<>>
    /\ wjob' = <<>>
    /\ UNCHANGED <<state, tsk, api, stop_in, stop_out, pump_in, pump_out,
                   pipe_in, peer_in, rbuf, item, q_in, q_out, wire_out, wstall,
                   lst, arrived, decoded, recv, sub>>
    /\ UNCHANGED <<codecVars, runVars, fnVars, rjob, at_stop>>

\* thread_out: the poll returns Pending
OutPollEnd ==
    /\ pump_out = "polling"
    /\ ~OutCanStep
    /\ pump_out' = "idle"
    /\ UNCHANGED <<state, tsk, api, stop_in, stop_out, pump_in, pipe_in, peer_in,
                   rbuf, item, q_in, q_out, cur, wire_out, wstall, lst, arrived,
                   decoded, recv, sub, wlog>>
    /\ UNCHANGED <<codecVars, runVars, fnVars, rjob, wjob, at_stop>>

NextPipe ==
    \/ Start
    \/ RunTask
    \/ Stop
    \/ StopOut
    \/ Recv
    \/ Submit
    \/ ListenerReturn
    \/ PeerWriteFrame
    \/ \E how \in {"garbled", "closed"} : PeerEnd(how)
    \/ PeerStall
    \/ InPollBegin
    \/ InSend
    \/ InDecode
    \/ InReadBegin
    \/ \E whole \in BOOLEAN : InRead(whole)
    \/ InReadReturn
    \/ InEof
    \/ InPollEnd
    \/ OutPollBegin
    \/ OutTake
    \/ \E ok \in BOOLEAN : OutWrite(ok)
    \/ OutSendReturn
    \/ OutPollEnd

\* ------------------------------------------------------------------------
\* Specifications
\* ------------------------------------------------------------------------
\* the run variables while the codec is driven, and the reverse
IdleRun == InitRun
IdleCodec == InitCodec
IdlePipe == InitPipe
IdleFn == subject = <<"none">> /\ fns = <<>> /\ got = <<>>

InitSpecCodec == InitCodec /\ IdleRun /\ IdlePipe /\ IdleFn
InitSpecRun   == InitRun /\ IdleCodec /\ IdlePipe /\ IdleFn
InitSpecPipe  == InitPipe /\ IdleCodec /\ IdleRun /\ IdleFn

SpecCodec == InitSpecCodec /\ [][NextCodec]_vars

SpecRun == InitSpecRun /\ [][NextRun]_vars

SpecPipe == InitSpecPipe /\ [][NextPipe]_vars

\* ------------------------------------------------------------------------
\* Claims about the codec (checked under SpecCodec)
\* ------------------------------------------------------------------------
\* the length a 4-byte header declares, read off the bytes
DeclaredLen(b) == b[2] * 65536 + b[3] * 256 + b[4]

\* the scenario where every byte of buf came from encode
Loopback == sent # <<>>

\* the messages the round-trip law is about: a named command or an unknown
\* code >= 10, and a declared length that fits in 24 bits
LawfulMsg(m) ==
    /\ m.command[1] # "Unknown" \/ m.command[2] >= 10
    /\ Len(m.data) + 2 < 16777216
LawfulSent == \A i \in 1..Len(sent) : LawfulMsg(sent[i])

\* the messages decode had returned before its last call
ReturnedBefore == IF dres.kind = "Some" THEN Len(out) - 1 ELSE Len(out)

\* C7: round-trip law.  When every encoded message is lawful, decode
\* returns the encoded messages, each once and equal to the one encoded
\* (control number, command, payload), never a framing error, and once
\* every encoded byte has arrived and decode asks for more data, all
\* messages have been returned and every encoded byte is consumed.
C7_RoundTrip ==
    (Loopback /\ LawfulSent) =>
        /\ IsPrefix(out, sent)
        /\ dres.kind # "Err"
        /\ (wire = <<>> /\ last = "decode" /\ dres.kind = "None")
              => (out = sent /\ buf = <<>>)

\* C7 witness: two frames, one with an unknown code >= 10 and a payload,
\* one with a named code, have gone through encode and decode
C7_Witness ==
    /\ sent = <<ControlMsg(1, Unknown(10), <<SYNC, 0>>),
                ControlMsg(0, Named("ErrorMessage"), <<>>)>>
    /\ out = sent
    /\ wire = <<>>
    /\ buf = <<>>

\* C8 as stated: on a buffer shorter than 4 bytes, or shorter than
\* 4 + declared length, decode returns need-more-data and consumes nothing.
C8_Original ==
    (last = "decode" /\ (Len(din) < 4 \/ Len(din) < 4 + DeclaredLen(din)))
        => (dres.kind = "None" /\ buf = din)

\* C8 amended: decode returns need-more-data and consumes nothing on a
\* buffer shorter than 4 bytes, and on a buffer of at least 4 bytes whose
\* header is well-formed (sync 'T', declared length >= 2) and that is
\* shorter than 4 + declared length.  When the bytes of lawful frames
\* arrive one at a time, a decode call returns a message exactly when the
\* buffer holds all bytes of the next frame, and that message is the next
\* encoded one; every call before that returns need-more-data.
C8_Amended ==
    /\ (last = "decode" /\ Len(din) < 4) => (dres.kind = "None" /\ buf = din)
    /\ (last = "decode" /\ Len(din) >= 4 /\ din[1] = SYNC
          /\ DeclaredLen(din) >= 2 /\ Len(din) < 4 + DeclaredLen(din))
          => (dres.kind = "None" /\ buf = din)
    /\ (last = "decode" /\ Loopback /\ LawfulSent) =>
          LET kb == ReturnedBefore IN
          IF kb < Len(sent)
          THEN /\ dres.kind = "Some" <=> Len(din) >= 6 + Len(sent[kb + 1].data)
               /\ dres.kind = "Some" => dres.msg = sent[kb + 1]
               /\ dres.kind # "Some" => (dres.kind = "None" /\ buf = din)
          ELSE dres.kind = "None" /\ buf = din

\* C8 witness: a well-formed header and one of its two sub-header bytes
C8_Witness ==
    /\ last = "decode"
    /\ din = <<SYNC, 0, 0, 2, 1>>
    /\ dres.kind = "None"
    /\ buf = din

\* C9 as stated: a buffer whose first byte is not 'T' gives a framing
\* error, however many bytes follow.
C9_Original ==
    (last = "decode" /\ Len(din) >= 1 /\ din[1] # SYNC) => dres.kind = "Err"

\* C9 amended: a buffer of at least 4 bytes whose first byte is not 'T'
\* gives a framing error, whatever the bytes after the first are, and the
\* buffer is left as it was.
C9_Amended ==
    (last = "decode" /\ Len(din) >= 4 /\ din[1] # SYNC)
        => (dres.kind = "Err" /\ buf = din)

\* C9 witness: after the bad first byte the buffer holds what would be a
\* complete frame
C9_Witness ==
    /\ last = "decode"
    /\ din = <<0, 0, 0, 2, 1, 1>>
    /\ dres.kind = "Err"

\* C10: a header with sync 'T' and declared length 0 or 1 gives a framing
\* error, whatever follows it in the buffer; declared length 2 with the
\* two sub-header bytes present gives a message with an empty payload and
\* consumes the 6 bytes of the frame.
C10_MinLength ==
    /\ (last = "decode" /\ Len(din) >= 4 /\ din[1] = SYNC /\ DeclaredLen(din) < 2)
          => (dres.kind = "Err" /\ buf = din)
    /\ (last = "decode" /\ Len(din) >= 6 /\ din[1] = SYNC /\ DeclaredLen(din) = 2)
          => /\ dres.kind = "Some"
             /\ dres.msg.data = <<>>
             /\ dres.msg.ctrl_num = din[5]
             /\ buf = Drop(din, 6)

\* C10 witness: declared length 1 and more bytes than the header
C10_Witness ==
    /\ last = "decode"
    /\ din = <<SYNC, 0, 0, 1, 0, 0>>
    /\ dres.kind = "Err"
    /\ buf = din


\* ------------------------------------------------------------------------
\* Extcap::run: the step, the flag parser and the interface lookup
\* ------------------------------------------------------------------------
\* get_matches_safe returned Ok and the matches were saved
ParseOk == extcap.matches # NoMatches

\* run went past the interface lookup of run_till_capture
PastLookup == pc \notin {"setup", "run", "init_log", "update_interfaces", "dispatch"}

\* one of extcap-dlts, extcap-config, capture is on the command line
StepFlagGiven == argv.dlts \/ argv.config \/ argv.capture

\* no registered interface has the name given with extcap-interface
NamesNoInterface ==
    \A i \in 1..Len(extcap.interfaces) :
        extcap.interfaces[i].interface # argv.interface

\* a listener callback or the control pipe was used
Called(name) == \E i \in 1..Len(calls) : calls[i][1] = name

C3_InvalidInterface ==
    (/\ ParseOk
     /\ PastLookup
     /\ result # Panicked
     /\ extcap.step[1] \in {"QueryDlts", "ConfigIface", "Capture"}
     /\ NamesNoInterface)
        => /\ pc = "done"
           /\ result = <<"Err", "InvalidInterface", argv.interface>>
           /\ stdout = <<>>
           /\ ~Called("reload_option")
           /\ ~Called("capture_header")
           /\ ~Called("capture_with_ctrl")
           /\ ~Called("start")
           /\ ctrl = "None"

\* extcap-interface=bogus with extcap-dlts and two interfaces registered
C3_Witness ==
    /\ pc = "done"
    /\ FlagsGiven(argv) = {OPT_EXTCAP_INTERFACE, OPT_EXTCAP_DTLS}
    /\ argv.interface = "bogus"
    /\ Len(extcap.interfaces) = 2
    /\ result = <<"Err", "InvalidInterface", "bogus">>

OtherFlagRefused ==
    \E f \in FlagsGiven(argv) \ ({OPT_EXTCAP_INTERFACES} \cup IfActionArgs) :
        \/ f \in {OPT_EXTCAP_RELOAD_OPTION, OPT_EXTCAP_CONTROL_IN,
                   OPT_EXTCAP_CONTROL_OUT}
        \/ (Requires(f) \cap IfActionArgs) \ FlagsGiven(argv) # {}

C5_NoOutputOnStepError ==
    /\ (Len(result) >= 2 /\ result[1] = "Err"
          /\ result[2] \in {"MissingInterface", "InvalidInterface",
                            "UnknownStepRequested"})
          => stdout = <<>>
    /\ (pc = "dispatch" /\ extcap.step # StepQueryIfaces) => stdout = <<>>

\* an InvalidInterface result with interfaces and a control registered
C5_Witness ==
    /\ pc = "done"
    /\ Len(result) >= 2 /\ result[2] = "InvalidInterface"
    /\ extcap.interfaces # <<>>
    /\ extcap.controls # <<>>

\* C6: when the flag parse fails run returns the parser's error at once:
\* the step is None, the matches are not saved, no listener callback was
\* called, nothing was printed and no control pipe exists.
C6_ParseFailure ==
    result = Err("Clap")
        => /\ pc = "done"
           /\ extcap.step = StepNone
           /\ extcap.matches = NoMatches
           /\ calls = <<>>
           /\ stdout = <<>>
           /\ ctrl = "None"

\* extcap-control-in given to a program that registered no control
C6_Witness ==
    /\ result = Err("Clap")
    /\ argv.control_in /\ argv.capture /\ argv.fifo
    /\ argv.interface = "ifA"
    /\ extcap.interfaces # <<>>
    /\ ~extcap.control


\* ------------------------------------------------------------------------
\* ControlPipeRuntime: lifecycle, pumps and queues
\* ------------------------------------------------------------------------
\* the frames of a sequence of control numbers, as bytes on a pipe
RECURSIVE Frames(_)
Frames(ks) == IF ks = <<>> THEN <<>> ELSE Frame(Head(ks)) \o Frames(Tail(ks))

\* the control numbers thread_out took from its queue, in order
Taken == [i \in 1..Len(wlog) |-> wlog[i][2]] \o Nums(cur)

\* the control numbers thread_in handed to the inbound queue, in order,
\* while the capture routine holds the Receiver
Pushed == recv \o Nums(q_in)

\* a pump that an executor is polling
Polled == {"idle", "polling"}

\* C11: start() in a state other than New, and stop() before start(), are
\* never silently ignored: the call aborts the process or returns a state
\* error to its caller.
C11_Claim ==
    ((api[1] = "start" /\ api[2] # "New") \/ (api[1] = "stop" /\ api[2] = "New"))
        => api[3] \in {"panic", "state error"}

\* C12: when stop() has returned both pumps have exited: neither is still
\* running or able to read, write or enqueue.
C12_Claim ==
    (api[1] = "stop" /\ api[3] \in {"ok", "ignored"})
        => (pump_in \notin Polled /\ pump_out \notin Polled)

\* C13: once start() has returned both pumps run, with no further action
\* of the caller.
C13_Claim ==
    state = "Started" => (pump_in # "stored" /\ pump_out # "stored")

\* no message is lost between a running pump and the capture routine:
\* what decode returned is what the capture routine received, then what is
\* queued, then what the forward holds, in that order; what was submitted
\* is what thread_out took, then what is queued, in that order
Lossless ==
    /\ (lst = "running" /\ pump_in \in Polled)
          => decoded = Pushed \o Nums(item)
    /\ lst = "running" => IsPrefix(recv, decoded)
    /\ pump_out \notin Gone => sub = Taken \o Nums(q_out)
    /\ IsPrefix(Taken, sub)

\* while the queue is full and the forward holds a message, thread_in
\* reads nothing from the pipe and decodes nothing
Backpressure ==
    (item # <<>> /\ Parked(q_in))
        => (Len(pipe_in') >= Len(pipe_in) /\ decoded' = decoded)

\* C14 as stated: a queue never holds more than 128 (PIPE_LEN) messages,
\* a full inbound queue suspends the reads of thread_in and nothing is
\* dropped, and every message put through a queue is received exactly
\* once and in order, for more messages than the capacity and any pace of
\* the reader.
C14_Original ==
    /\ Len(q_in) <= PIPE_LEN
    /\ Len(q_out) <= PIPE_LEN
    /\ Lossless

\* C14 amended: a queue never holds more than PIPE_LEN messages plus one
\* for its Sender (129); a full inbound queue suspends the reads of
\* thread_in and nothing is dropped, and every message put through a queue
\* is received exactly once and in order.
C14_Amended ==
    /\ [](Len(q_in) <= PIPE_LEN + 1 /\ Len(q_out) <= PIPE_LEN + 1 /\ Lossless)
    /\ [][Backpressure]_vars

\* both queues are full, thread_in holds one more message and is
\* suspended
C14_Witness ==
    /\ Len(q_in) = PIPE_LEN + 1
    /\ Len(q_out) = PIPE_LEN + 1
    /\ item # <<>>
    /\ pump_in = "idle"
    /\ stop_in = "armed"
    /\ Len(decoded) = PIPE_LEN + 2

\* C15: under every interleaving the capture routine receives a prefix of
\* the frames completely received on the read pipe, in their order, and the
\* frames on the write pipe are a prefix of the messages the capture
\* routine submitted, in their order, none twice.
C15_Claim ==
    /\ IsPrefix(recv, arrived)
    /\ IsPrefix(wire_out, Frames(sub))

\* C16: when stop() cancels thread_in, every message decode had returned
\* is in the inbound queue or was received; only a partial frame is
\* discarded, also when the inbound queue was full.
C16_Claim ==
    (lst = "running" /\ at_stop # <<>> /\ pump_in = "exited")
        => IsPrefix(at_stop[1], Pushed)

\* C17: a decode error ends thread_in only: the step that ends it leaves
\* thread_out, its queue and the capture routine as they are, and no abort
\* of the process by the engine follows from it, so that the capture
\* result is returned as the capture routine gave it.
C17_Claim ==
    /\ [](pump_in = "error" => ~(api[1] = "stop" /\ api[3] = "panic"))
    /\ [][(pump_in # "error" /\ pump_in' = "error")
             => UNCHANGED <<pump_out, q_out, cur, lst, q_in, api>>]_vars

\* C18: a failed write ends thread_out: no message is taken from the
\* outbound queue and no write is attempted after the first failed write.
C18_Claim ==
    \A i \in 1..Len(wlog) :
        wlog[i][1] = "fail" => (i = Len(wlog) /\ cur = <<>>)

\* the steps of thread_in and of thread_out, those of the blocking thread
\* that runs their read or write included
InSteps ==
    \/ InPollBegin
    \/ InSend
    \/ InDecode
    \/ InReadBegin
    \/ \E whole \in BOOLEAN : InRead(whole)
    \/ InReadReturn
    \/ InEof
    \/ InPollEnd

OutSteps ==
    \/ OutPollBegin
    \/ OutTake
    \/ \E ok \in BOOLEAN : OutWrite(ok)
    \/ OutSendReturn
    \/ OutPollEnd

\* the peer does not read the write pipe; the peer has nothing more for
\* thread_in on the read pipe
WriteStalled == wstall
ReadStalled == pipe_in = <<>> /\ peer_in = "open"

\* stop() has returned, no byte is or comes on the read pipe, and no frame
\* or message is left with thread_in: nothing but the cancellation can
\* make thread_in move
CancelledWaiting ==
    /\ api = <<"stop", "Started", "ok">>
    /\ ReadStalled
    /\ item = <<>>
    /\ decode(rbuf).kind = "None"

\* a pump that ran and has returned
Returned == Gone \ {"dropped"}

CancelPolled ==
    (CancelledWaiting /\ tsk # "Dropped")
        => (pump_in \in Returned \/ ENABLED InSteps)

\* a frame has arrived and is not yet in the inbound queue, the queue has
\* room, thread_in has not ended and is not cancelled, and the capture
\* routine is listening
InboundDue ==
    /\ ~Aborted
    /\ pump_in \notin Gone
    /\ stop_in = "armed"
    /\ lst = "running"
    /\ ~Parked(q_in)
    /\ Len(Pushed) < Len(arrived)

\* a message was submitted and its write was not yet attempted, with
\* thread_out not ended and not cancelled
OutboundDue ==
    /\ ~Aborted
    /\ pump_out \notin Gone
    /\ stop_out = "armed"
    /\ Len(wlog) < Len(sub)

\* C20: a stall of one direction does not block the other: while the peer
\* does not read the write pipe, thread_in can take a step for a frame
\* that arrived and is not yet in the inbound queue; while nothing
\* arrives on the read pipe and the write pipe is read, thread_out can
\* take a step for a submitted message that is not yet written.
C20_Claim ==
    /\ (WriteStalled /\ InboundDue) => ENABLED InSteps
    /\ (ReadStalled /\ ~wstall /\ OutboundDue) => ENABLED OutSteps

\* what holds of the two stalls once the task has been taken and polled
StallPolled ==
    /\ (WriteStalled /\ InboundDue /\ pump_in \in Polled) => ENABLED InSteps
    /\ (ReadStalled /\ ~wstall /\ OutboundDue /\ pump_out \in Polled)
          => ENABLED OutSteps

\* ------------------------------------------------------------------------
\* Claims about the capture step (checked under SpecRun)
\* ------------------------------------------------------------------------
\* the calls of Extcap::capture on the engine and the capture routine
EngineCalls ==
    SelectSeq(calls, LAMBDA c : c[1] \in {"start", "capture_with_ctrl", "stop"})

\* the three events of a capture with control pipes, in order
CaptureOrder == <<<<"start">>, <<"capture_with_ctrl", TRUE>>, <<"stop">>>>

\* C21: in a capture whose control pipes were opened, start() comes first,
\* then the capture routine with the endpoints of start(), then stop(),
\* once, after the routine returned Ok or an error: the events so far are
\* always a prefix of that order, the routine has returned when stop() is
\* called, and the run ends only after stop().
C21_CaptureOrder ==
    (ctrl \in {"Started", "Stopped"}) =>
        /\ IsPrefix(EngineCalls, CaptureOrder)
        /\ EngineCalls # <<>>
        /\ (Len(EngineCalls) = 3) => (res # Running /\ ctrl = "Stopped")
        /\ (pc = "done") => EngineCalls = CaptureOrder

C21_Witness ==
    /\ pc = "done"
    /\ ctrl = "Stopped"
    /\ result = Err("UserError")
    /\ EngineCalls = CaptureOrder

\* C22: when the sink named by fifo cannot be opened, run returns the I/O
\* error, the capture routine is not invoked and the engine is not started:
\* leaving create_pcap_writer with an error ends the run with Err(Io), and a
\* run that ended with it has called neither start() nor capture_with_ctrl.
C22_SinkFailure ==
    /\ [](result = Err("Io") =>
            /\ pc = "done"
            /\ ~Called("start")
            /\ ~Called("capture_with_ctrl")
            /\ ctrl \in {"None", "New"}
            /\ res = Running)
    /\ [][(pc = "pcap_writer" /\ pc' = "done") => result' = Err("Io")]_vars

C22_Witness ==
    /\ pc = "done"
    /\ result = Err("Io")
    /\ ctrl = "New"
    /\ Called("capture_header")

\* C23: the result of the Capture step is the capture routine's result: a
\* run that invoked the routine and ended returns what the routine
\* returned, Ok or the user error, with an engine and without one.
C23_CaptureResult ==
    (pc = "done" /\ Called("capture_with_ctrl")) =>
        /\ res \in {Ok, Err("UserError")}
        /\ result = res
        /\ ctrl \in {"None", "New", "Stopped"}

C23_Witness ==
    /\ pc = "done"
    /\ Called("capture_with_ctrl")
    /\ ~Called("start")
    /\ res = Err("UserError")
    /\ result = Err("UserError")

\* ------------------------------------------------------------------------
\* Claims about the query and configuration steps (checked under SpecRun)
\* ------------------------------------------------------------------------
\* the records of the i-th control: its record with ordinal i - 1, then one
\* record per value in insertion order
ControlBlock(i) ==
    <<<<"control", i - 1>>>>
      \o [j \in 1..Len(extcap.controls[i].vals) |->
            <<"value", "control", i - 1, extcap.controls[i].vals[j].value>>]

\* C24: the QueryInterfaces step needs no interface selection and prints one
\* version record, then one interface record per registered interface in
\* registration order, then per registered control in registration order
\* its control record followed by its value records; no arg record, arg
\* value record or dlt record is printed.
C24_QueryInterfaces ==
    (pc = "done" /\ extcap.step = StepQueryIfaces) =>
        /\ result \in {Ok, Panicked}
        /\ Matches.interface = Absent
        /\ (result = Ok) =>
            LET n == Len(extcap.interfaces) IN
            /\ Len(stdout) >= 1 + n
            /\ stdout[1] = <<"extcap">>
            /\ \A i \in 1..n :
                  stdout[1 + i] = <<"interface", extcap.interfaces[i].interface>>
            /\ Drop(stdout, 1 + n)
                  = Flatten([i \in 1..Len(extcap.controls) |-> ControlBlock(i)])
            /\ \A k \in 1..Len(stdout) :
                  /\ stdout[k][1] \notin {"arg", "dlt"}
                  /\ stdout[k][1] = "value" => stdout[k][2] = "control"

C24_Witness ==
    /\ pc = "done"
    /\ extcap.step = StepQueryIfaces
    /\ result = Ok
    /\ Len(extcap.interfaces) = 2
    /\ extcap.interfaces[1].interface # extcap.interfaces[2].interface
    /\ Len(extcap.controls) = 2
    /\ Len(stdout) = 7

\* the step in which Extcap::reload_option calls the listener
ReloadStep == calls' # calls /\ calls'[Len(calls')][1] = "reload_option"

\* C25: in ConfigIface{reload:true} with the named argument on the selected
\* interface, the values of that argument become the sequence the callback
\* returned, in its order, each owned by the argument's ordinal, or stay as
\* they are when it returned None; nothing else of the registry changes;
\* and the output is the record of that argument followed by its values.
C25_Reload ==
    [][ReloadStep =>
        LET ret == calls'[Len(calls')][3]
            ifi == IfIdx + 1
            ai  == get_arg_idx(extcap.interfaces[ifi], Matches.reload) + 1
            old == extcap.interfaces[ifi].args[ai]
            nv  == IF ret = <<>> THEN old.vals
                   ELSE [i \in 1..Len(ret[1]) |->
                           [arg |-> old.number, value |-> ret[1][i].value]]
        IN  /\ extcap.step = StepConfigIface(TRUE)
            /\ old.name = Matches.reload
            /\ extcap' = [extcap EXCEPT !.interfaces[ifi].args[ai].vals = nv]
            /\ stdout' = stdout \o <<<<"arg", old.number, old.name>>>>
                            \o [i \in 1..Len(nv) |->
                                  <<"value", "arg", old.number, nv[i].value>>]
            /\ result' = Ok
    ]_vars

C25_Witness ==
    /\ pc = "done"
    /\ calls # <<>>
    /\ calls[Len(calls)] = <<"reload_option", "port", <<<<IfArgVal("n1"), IfArgVal("n2")>>>> >>
    /\ Matches.interface = "ifB"
    /\ stdout = <<<<"arg", 0, "port">>, <<"value", "arg", 0, "n1">>,
                  <<"value", "arg", 0, "n2">>>>

\* the selected interface exists and has no argument of the name given
\* with extcap-reload-option
ReloadArgAbsent ==
    /\ extcap.step = StepConfigIface(TRUE)
    /\ IfIdx # -1
    /\ \A i \in 1..Len(extcap.interfaces[IfIdx + 1].args) :
          extcap.interfaces[IfIdx + 1].args[i].name # Matches.reload

\* C26: in ConfigIface{reload:true} with the named argument absent on the
\* selected interface the step does nothing: the callback is not invoked,
\* nothing is printed, the registry is unchanged and run returns Ok.
C26_ReloadAbsent ==
    [][(pc = "dispatch" /\ ReloadArgAbsent) =>
         /\ pc' = "done"
         /\ result' = Ok
         /\ calls' = calls
         /\ stdout' = stdout
         /\ extcap' = extcap
    ]_vars

C26_Witness ==
    /\ pc = "done"
    /\ ReloadArgAbsent
    /\ Matches.interface = "ifB"
    /\ Matches.reload = "nosuch"
    /\ result = Ok
    /\ stdout = <<>>
    /\ ~Called("reload_option")

\* the arg records printed for the argument name
ArgRecords(name) ==
    {k \in 1..Len(stdout) : stdout[k][1] = "arg" /\ stdout[k][3] = name}

\* the times a flag is registered with the parser
Registered(flag) ==
    Cardinality({k \in 1..Len(extcap.app.args) : extcap.app.args[k] = flag})

\* C27: an argument registered twice under one name on an interface gives
\* one CLI flag of that name and one arg record, with ordinal 0, in the
\* output of ConfigIface.
C27_Claim ==
    /\ Registered("port") <= 1
    /\ (pc = "done" /\ extcap.step = StepConfigIface(FALSE) /\ result = Ok) =>
          /\ Cardinality(ArgRecords("port")) <= 1
          /\ \A k \in ArgRecords("port") : stdout[k][2] = 0

\* some registered interface has an argument of its own with that name
ArgNamed(name) ==
    \E i \in 1..Len(extcap.interfaces) :
        \E j \in 1..Len(extcap.interfaces[i].args) :
            extcap.interfaces[i].args[j].name = name

\* the times a shared flag is to be registered: once if some registered
\* interface asks for it, and not at all if none does and no argument
\* carries the flag's name itself
SharedOnce(flag, wanted) ==
    /\ wanted => Registered(flag) = 1
    /\ (~wanted /\ ~ArgNamed(flag)) => Registered(flag) = 0

\* C28: after any sequence of add_interface calls, extcap-reload-option is
\* registered with the parser once if a registered interface has a
\* reloadable argument and not at all otherwise, and debug and debug-file
\* are registered once if a registered interface declared debug support and
\* not at all otherwise.
C28_Claim ==
    (pc = "setup") =>
        LET reloadable == \E i \in 1..Len(extcap.interfaces) :
                              has_reloadable_arg(extcap.interfaces[i])
            debug == \E i \in 1..Len(extcap.interfaces) :
                         extcap.interfaces[i].debug
        IN  /\ SharedOnce(OPT_EXTCAP_RELOAD_OPTION, reloadable)
            /\ SharedOnce(OPT_DEBUG, debug)
            /\ SharedOnce(OPT_DEBUG_FILE, debug)

\* ------------------------------------------------------------------------
\* Claims about the registries (checked under SpecRun)
\* ------------------------------------------------------------------------
\* C29: within a registered interface the argument at position i (from 0)
\* has ordinal i and each of its values carries that ordinal as its owner,
\* in every state; no step changes the ordinal of a registered argument,
\* removes an argument or an interface, a reload included.
C29_ArgOrdinals ==
    /\ [](\A i \in 1..Len(extcap.interfaces) :
            \A j \in 1..Len(extcap.interfaces[i].args) :
               LET a == extcap.interfaces[i].args[j] IN
               /\ a.number = j - 1
               /\ \A k \in 1..Len(a.vals) : a.vals[k].arg = j - 1)
    /\ [][/\ Len(extcap'.interfaces) >= Len(extcap.interfaces)
          /\ \A i \in 1..Len(extcap.interfaces) :
               /\ Len(extcap'.interfaces[i].args) = Len(extcap.interfaces[i].args)
               /\ \A j \in 1..Len(extcap.interfaces[i].args) :
                     /\ extcap'.interfaces[i].args[j].number
                          = extcap.interfaces[i].args[j].number
                     /\ extcap'.interfaces[i].args[j].name
                          = extcap.interfaces[i].args[j].name
         ]_vars

C29_Witness ==
    /\ pc = "done"
    /\ Called("reload_option")
    /\ Len(extcap.interfaces) = 2
    /\ extcap.interfaces[1].interface = "ifB"
    /\ extcap.interfaces[1].args[1].vals = <<[arg |-> 0, value |-> "n1"]>>
    /\ Len(extcap.interfaces[1].args[2].vals) = 2
    /\ Len(extcap.interfaces[2].args) = 3

\* C30: the control at position i (from 0) of the control list has ordinal
\* i, counted over all controls, and each of its values carries i as its
\* owner, in every state; add_control appends and leaves the controls
\* registered before as they were.
C30_ControlOrdinals ==
    /\ [](\A i \in 1..Len(extcap.controls) :
            /\ extcap.controls[i].number = i - 1
            /\ \A k \in 1..Len(extcap.controls[i].vals) :
                  extcap.controls[i].vals[k].control = i - 1)
    /\ [][/\ Len(extcap'.controls) >= Len(extcap.controls)
          /\ \A i \in 1..Len(extcap.controls) :
                extcap'.controls[i] = extcap.controls[i]
         ]_vars

C30_Witness ==
    /\ Len(extcap.controls) = 2
    /\ extcap.controls[2].number = 1
    /\ extcap.controls[2].vals = <<[control |-> 1, value |-> "c1"]>>
    /\ extcap.interfaces # <<>>

\* ------------------------------------------------------------------------
\* The descriptor lines, field by field (lib.rs, iface.rs, arg.rs,
\* control.rs).  A line is its keyword and the fields printed after it, each
\* field <<name, value>>; an Option is <<>> (None) or <<v>> (Some(v)).
\* ------------------------------------------------------------------------
Line(rec, fields) == [rec |-> rec, fields |-> fields]

\* print_opt_value: {name=value} when the option is Some, nothing otherwise
print_opt_value(name, option) ==
    IF option = <<>> THEN <<>> ELSE << <<name, option[1]>> >>

\* Option::unwrap_or
unwrap_or(option, dflt) == IF option = <<>> THEN dflt ELSE option[1]

\* ButtonRole::role_str
role_str(role) ==
    CASE role = "Control" -> "control"
      [] role = "Logger"  -> "logger"
      [] role = "Help"    -> "help"
      [] role = "Restore" -> "restore"

\* ControlType::type_str; a ControlType is <<variant>> or <<"Button", role>>
ControlType_type_str(ctype) ==
    CASE ctype[1] = "None"     -> "none"
      [] ctype[1] = "Boolean"  -> "boolean"
      [] ctype[1] = "Button"   -> "button"
      [] ctype[1] = "Selector" -> "selector"
      [] ctype[1] = "String"   -> "string"

\* IfArgType::type_str, for the argument types the inputs use
IfArgType_type_str(atype) ==
    CASE atype = "None"       -> "none"
      [] atype = "Integer"    -> "integer"
      [] atype = "Fileselect" -> "fileselect"
      [] atype = "Selector"   -> "selector"
      [] atype = "Boolflag"   -> "boolflag"

\* ControlVal::print_value
ControlVal_print_value(v) ==
    Line("value", << <<"control", v.control>>, <<"value", v.value>>,
                     <<"display", unwrap_or(v.display, v.value)>> >>
                  \o print_opt_value("default", v.default))

\* IfArgVal::print_value
IfArgVal_print_value(v) ==
    Line("value", << <<"arg", v.arg>>, <<"value", v.value>>,
                     <<"display", unwrap_or(v.display, v.value)>> >>
                  \o print_opt_value("default", v.default))

\* Control::print_control: the control line, then one line per value
Control_print_control(c) ==
    << Line("control",
            << <<"number", c.number>>,
               <<"type", ControlType_type_str(c.ctype)>> >>
            \o (IF c.ctype[1] = "Button"
                THEN << <<"role", role_str(c.ctype[2])>> >> ELSE <<>>)
            \o print_opt_value("display", c.display)
            \o print_opt_value("default", c.default)
            \o print_opt_value("range", c.range)
            \o print_opt_value("validation", c.validation)
            \o print_opt_value("tooltip", c.tooltip)
            \o print_opt_value("placeholder", c.placeholder)) >>
    \o [i \in 1..Len(c.vals) |-> ControlVal_print_value(c.vals[i])]

\* IfArg::print_arg: the arg line, then one line per value
IfArg_print_arg(a) ==
    << Line("arg",
            << <<"number", a.number>>,
               <<"call", <<"--", a.name>> >>,
               <<"display", unwrap_or(a.display, a.name)>>,
               <<"type", IfArgType_type_str(a.atype)>> >>
            \o print_opt_value("default", a.default)
            \o print_opt_value("range", a.range)
            \o print_opt_value("validation", a.validation)
            \o print_opt_value("mustexist", a.mustexist)
            \o print_opt_value("reload", a.reload)
            \o print_opt_value("placeholder", a.placeholder)
            \o print_opt_value("tooltip", a.tooltip)
            \o print_opt_value("group", a.group)) >>
    \o [i \in 1..Len(a.vals) |-> IfArgVal_print_value(a.vals[i])]

\* IFace::print_iface
IFace_print_iface(f) ==
    << Line("interface", << <<"value", f.interface>> >>
                         \o print_opt_value("display", f.descr)) >>

\* IFace::print_dlt_list
IFace_print_dlt_list(f) ==
    << Line("dlt", << <<"number", f.dlt>>,
                      <<"name", unwrap_or(f.dltname, f.interface)>> >>
                   \o print_opt_value("display", f.dltdescr)) >>

\* Extcap::print_version
Extcap_print_version(e) ==
    << Line("extcap", << <<"version", unwrap_or(e.version, "unknown")>> >>
                      \o print_opt_value("help", e.helppage)) >>

\* ------------------------------------------------------------------------
\* The frame header as a function of the payload length: what encode writes
\* before the payload, and what decode makes of the whole frame
\* ------------------------------------------------------------------------
U24 == 16777216    \* 2^24: put_uint(n, 3) keeps three bytes of n

\* Encoder::encode: the six bytes written before a payload of len bytes
encode_head(ctrl_num, command, len) ==
    <<SYNC>> \o PutUint3(2 + len) \o <<ctrl_num, ToU8(command)>>

\* Decoder::decode over a buffer that holds the six bytes head followed by
\* len payload bytes: the kind of the result, the message's control number,
\* command and payload length, and the number of bytes left in the buffer
decode_head(head, len) ==
    LET none == [kind |-> "None", ctrl_num |-> 0, command |-> Unknown(0),
                 len |-> 0, left |-> 6 + len]
        msg_len == GetUint3(head) IN
    IF 6 + len < 4 THEN none ELSE
    IF head[1] # SYNC THEN [none EXCEPT !.kind = "Err"] ELSE
    IF msg_len < 2 THEN [none EXCEPT !.kind = "Err"] ELSE
    IF 6 + len < 4 + msg_len THEN none ELSE
    [kind |-> "Some", ctrl_num |-> head[5], command |-> FromU8(head[6]),
     len |-> msg_len - 2, left |-> (6 + len) - (4 + msg_len)]

\* ------------------------------------------------------------------------
\* The pure functions applied to inputs (SpecFn)
\* ------------------------------------------------------------------------
MaxApply == 2      \* conversions applied in a row to one input

Opt(S) == {<<>>} \cup {<<x>> : x \in S}

\* the settings of a group of optional fields: none set, each one alone,
\* all of them
Settings(names) ==
    {[n \in names |-> <<>>], [n \in names |-> <<"x">>]}
      \cup {[n \in names |-> IF n = m THEN <<"x">> ELSE <<>>] : m \in names}

ControlOptions == {"default", "range", "validation", "tooltip", "placeholder"}
ArgOptions == {"default", "range", "validation", "mustexist", "reload",
               "placeholder", "tooltip", "group"}

ControlTypes == {<<"Boolean">>, <<"Button", "Control">>, <<"Button", "Help">>,
                 <<"Selector">>, <<"String">>}
ArgTypes == {"Integer", "Fileselect", "Selector"}

\* no value, or one value with its display and default flag set or not
ControlVals(number) ==
    {<<>>} \cup {<<[control |-> number, value |-> "v", display |-> d,
                   default |-> t]>> : d \in Opt({"V"}), t \in Opt({"true"})}
ArgVals(number) ==
    {<<>>} \cup {<<[arg |-> number, value |-> "v", display |-> d,
                   default |-> t]>> : d \in Opt({"V"}), t \in Opt({"true"})}

\* registered controls (set_number has run)
ControlInputs ==
    {[number |-> 0, ctype |-> t, display |-> d, default |-> s["default"],
      range |-> s["range"], validation |-> s["validation"],
      tooltip |-> s["tooltip"], placeholder |-> s["placeholder"],
      vals |-> vs] :
        t \in ControlTypes, d \in Opt({"D"}), s \in Settings(ControlOptions),
        vs \in ControlVals(0)}

\* registered arguments (set_number has run)
ArgInputs ==
    {[number |-> 1, name |-> "port", display |-> d, atype |-> t,
      default |-> s["default"], range |-> s["range"],
      validation |-> s["validation"], mustexist |-> s["mustexist"],
      reload |-> s["reload"], placeholder |-> s["placeholder"],
      tooltip |-> s["tooltip"], group |-> s["group"], vals |-> vs] :
        t \in ArgTypes, d \in Opt({"D"}), s \in Settings(ArgOptions),
        vs \in ArgVals(1)}

IFaceInputs ==
    {[interface |-> "ifA", descr |-> d, dlt |-> 147, dltname |-> n,
      dltdescr |-> dd] :
        d \in Opt({"D"}), n \in Opt({"N"}), dd \in Opt({"DD"})}

VersionInputs ==
    {[version |-> v, helppage |-> h] : v \in Opt({"1.0"}), h \in Opt({"url"})}

\* payload lengths: small ones and the ones around the three-byte limit
PayloadLens == {0, 1, 254, U24 - 4, U24 - 3, U24 - 2, U24 - 1, U24, U24 + 254}

SizedMsgs ==
    {[ctrl_num |-> n, command |-> c, len |-> l] :
        n \in {0, 255}, c \in {Named("Set"), Unknown(200)}, l \in PayloadLens}

\* every command a caller can construct
EveryCmd == {Named(NamedCmds[i]) : i \in 1..10} \cup {Unknown(v) : v \in 0..255}

Subjects ==
    {<<"u8", v>> : v \in 0..255} \cup {<<"cmd", c>> : c \in EveryCmd}
      \cup {<<"msg", m>> : m \in SizedMsgs}
      \cup {<<"control", c>> : c \in ControlInputs}
      \cup {<<"arg", a>> : a \in ArgInputs}
      \cup {<<"iface", f>> : f \in IFaceInputs}
      \cup {<<"extcap", e>> : e \in VersionInputs}

InitFn ==
    /\ subject \in Subjects
    /\ fns = <<>>
    /\ got = <<>>

\* the value the next conversion applies to
Cur == IF fns = <<>> THEN subject[2] ELSE got
CurIsByte ==
    \/ subject[1] = "u8" /\ Len(fns) % 2 = 0
    \/ subject[1] = "cmd" /\ Len(fns) % 2 = 1
CurIsCmd ==
    \/ subject[1] = "cmd" /\ Len(fns) % 2 = 0
    \/ subject[1] = "u8" /\ Len(fns) % 2 = 1

Apply(name, value) ==
    /\ fns' = Append(fns, name)
    /\ got' = value
    /\ UNCHANGED subject
    /\ UNCHANGED <<codecVars, runVars, pipeVars>>

\* ControlCmd::from(u8)
CmdFromU8 ==
    /\ Len(fns) < MaxApply
    /\ CurIsByte
    /\ Apply("from_u8", FromU8(Cur))

\* u8::from(&ControlCmd)
U8FromCmd ==
    /\ Len(fns) < MaxApply
    /\ CurIsCmd
    /\ Apply("to_u8", ToU8(Cur))

\* encode of a message with a payload of subject[2].len bytes
EncodeHead ==
    /\ subject[1] = "msg"
    /\ fns = <<>>
    /\ Apply("encode", encode_head(subject[2].ctrl_num, subject[2].command,
                                   subject[2].len))

\* decode of the buffer that holds that frame and nothing else
DecodeHead ==
    /\ subject[1] = "msg"
    /\ fns = <<"encode">>
    /\ Apply("decode", decode_head(got, subject[2].len))

PrintVersion ==
    /\ subject[1] = "extcap"
    /\ fns = <<>>
    /\ Apply("print_version", Extcap_print_version(subject[2]))

PrintIface ==
    /\ subject[1] = "iface"
    /\ fns = <<>>
    /\ Apply("print_iface", IFace_print_iface(subject[2]))

PrintDltList ==
    /\ subject[1] = "iface"
    /\ fns = <<>>
    /\ Apply("print_dlt_list", IFace_print_dlt_list(subject[2]))

PrintArg ==
    /\ subject[1] = "arg"
    /\ fns = <<>>
    /\ Apply("print_arg", IfArg_print_arg(subject[2]))

PrintControl ==
    /\ subject[1] = "control"
    /\ fns = <<>>
    /\ Apply("print_control", Control_print_control(subject[2]))

NextFn ==
    \/ CmdFromU8
    \/ U8FromCmd
    \/ EncodeHead
    \/ DecodeHead
    \/ PrintVersion
    \/ PrintIface
    \/ PrintDltList
    \/ PrintArg
    \/ PrintControl

InitSpecFn == InitFn /\ IdleCodec /\ IdleRun /\ IdlePipe

SpecFn == InitSpecFn /\ [][NextFn]_vars

\* ------------------------------------------------------------------------
\* C31: the shape of the descriptor records
\* ------------------------------------------------------------------------
\* the record shapes of the descriptor output: the fields in order, TRUE
\* for a bracketed (optional) field; owner is "arg" or "control" on a value
\* record
Shape(rec, owner) ==
    CASE rec = "extcap" ->
           << <<"version", FALSE>>, <<"help", TRUE>> >>
      [] rec = "interface" ->
           << <<"value", FALSE>>, <<"display", TRUE>> >>
      [] rec = "dlt" ->
           << <<"number", FALSE>>, <<"name", FALSE>>, <<"display", TRUE>> >>
      [] rec = "arg" ->
           << <<"number", FALSE>>, <<"call", FALSE>>, <<"display", FALSE>>,
              <<"type", FALSE>>, <<"default", TRUE>>, <<"range", TRUE>>,
              <<"validation", TRUE>>, <<"mustexist", TRUE>>,
              <<"reload", TRUE>>, <<"placeholder", TRUE>>,
              <<"tooltip", TRUE>>, <<"group", TRUE>> >>
      [] rec = "control" ->
           << <<"number", FALSE>>, <<"type", FALSE>>, <<"role", TRUE>>,
              <<"display", FALSE>>, <<"default", TRUE>>, <<"range", TRUE>>,
              <<"validation", TRUE>>, <<"tooltip", TRUE>>,
              <<"placeholder", TRUE>> >>
      [] rec = "value" ->
           << <<owner, FALSE>>, <<"value", FALSE>>, <<"display", FALSE>>,
              <<"default", TRUE>> >>

\* the record a print function writes first, and the optional fields of
\* that record which are set on the object it prints
RecordOf(fn) ==
    CASE fn = "print_version"  -> "extcap"
      [] fn = "print_iface"    -> "interface"
      [] fn = "print_dlt_list" -> "dlt"
      [] fn = "print_arg"      -> "arg"
      [] fn = "print_control"  -> "control"

OptionalsSet(fn, obj) ==
    CASE fn = "print_version"  -> IF obj.helppage # <<>> THEN {"help"} ELSE {}
      [] fn = "print_iface"    -> IF obj.descr # <<>> THEN {"display"} ELSE {}
      [] fn = "print_dlt_list" -> IF obj.dltdescr # <<>> THEN {"display"} ELSE {}
      [] fn = "print_arg"      -> {n \in ArgOptions : obj[n] # <<>>}
      [] fn = "print_control"  ->
           {n \in ControlOptions : obj[n] # <<>>}
             \cup (IF obj.ctype[1] = "Button" THEN {"role"} ELSE {})

FieldNames(fields) == [i \in 1..Len(fields) |-> fields[i][1]]

\* a line has the record's shape: the unbracketed fields and the set
\* optional ones, in the order of the shape, none of them empty
HasShape(line, rec, owner, set) ==
    /\ line.rec = rec
    /\ FieldNames(line.fields) =
         FieldNames(SelectSeq(Shape(rec, owner),
                              LAMBDA p : ~p[2] \/ p[1] \in set))
    /\ \A i \in 1..Len(line.fields) :
         line.fields[i][1] \in {"number", "call", "arg", "control"}
           \/ line.fields[i][2] # ""

Printing == Len(fns) = 1 /\ subject[1] \in {"extcap", "iface", "arg", "control"}

\* C31: every descriptor record that is printed has the shape of its kind:
\* the unbracketed fields are always present, in order (a control record
\* has number, type and display, an arg record number, call, display and
\* type), and a bracketed field is present exactly when it is set
C31_Claim ==
    Printing =>
        /\ HasShape(got[1], RecordOf(fns[1]), "", OptionalsSet(fns[1], subject[2]))
        /\ \A i \in 2..Len(got) :
             HasShape(got[i], "value", subject[1],
                      IF subject[2].vals[i - 1].default # <<>>
                      THEN {"default"} ELSE {})

\* ------------------------------------------------------------------------
\* C32: stop() on a started engine
\* ------------------------------------------------------------------------
\* C32: a call of stop() on an engine in state Started completes normally
\* (it does not panic), whatever has become of the two pumps before it.
C32_Claim ==
    (api[1] = "stop" /\ api[2] = "Started") => api[3] # "panic"

\* ------------------------------------------------------------------------
\* C33: MissingInterface and UnknownStep
\* ------------------------------------------------------------------------
\* one of the four flags the step is derived from is on the command line
AnyStepFlag == argv.interfaces \/ argv.dlts \/ argv.config \/ argv.capture

\* the run parsed its command line and returned (update_interfaces did not
\* abort it)
ReturnedParsed == pc = "done" /\ ParseOk /\ result # Panicked

\* C33: a run whose command line parsed returns MissingInterface exactly
\* when neither a step flag nor extcap-interface is on the command line, and
\* UnknownStepRequested exactly when no step flag is on the command line
\* and extcap-interface names a registered interface.
C33_StepErrors ==
    ReturnedParsed =>
        /\ result = Err("MissingInterface")
             <=> (~AnyStepFlag /\ argv.interface = Absent)
        /\ result = Err("UnknownStepRequested")
             <=> (~AnyStepFlag /\ argv.interface # Absent /\ ~NamesNoInterface)

C33_Witness ==
    /\ ReturnedParsed
    /\ ~AnyStepFlag
    /\ argv.interface = "ifB"
    /\ result = Err("UnknownStepRequested")

\* ------------------------------------------------------------------------
\* C34: flag names registered with the parser
\* ------------------------------------------------------------------------
\* C34: after any sequence of add_interface and add_control calls before the
\* run, no flag name is registered with the parser more than once, a
\* user-declared argument with the name of a built-in or shared flag
\* included, whatever the order of the registrations.
C34_Claim ==
    (pc = "setup" /\ extcap.app.some) =>
        \A k \in 1..Len(extcap.app.args) : Registered(extcap.app.args[k]) = 1

\* ------------------------------------------------------------------------
\* C35: registration inside update_interfaces
\* ------------------------------------------------------------------------
\* what the listener did inside update_interfaces: <<operation, object>>
UpdateCalls == SelectSeq(calls, LAMBDA c : c[1] = "update_interfaces")

\* the registration has a flag to register with the parser: an argument
\* name not seen before, the first reloadable argument, the first debug
\* request, the first control, or a setter of the App
NeedsNewFlag(ex, op, obj) ==
    CASE op = "add_interface" ->
            \/ \E i \in 1..Len(obj.args) : obj.args[i].name \notin ex.app_args
            \/ (\E i \in 1..Len(obj.args) : obj.args[i].reload) /\ ~ex.reload_opt
            \/ obj.debug /\ ~ex.ifc_debug
      [] op = "add_control" -> ~ex.control
      [] op = "nothing" -> FALSE
      [] OTHER -> TRUE

\* C35: inside update_interfaces a registration that needs no new flag
\* succeeds, and the interface it adds is found by the interface lookup and
\* printed by QueryInterfaces in the same run; a registration that needs a
\* new flag aborts the process and is not ignored.
C35_UpdateInterfaces ==
    /\ [][pc = "update_interfaces" =>
            LET call == calls'[Len(calls')] IN
            IF NeedsNewFlag(extcap, call[2], call[3])
            THEN /\ result' = Panicked
                 /\ pc' = "done"
                 /\ extcap'.interfaces = extcap.interfaces
                 /\ extcap'.controls = extcap.controls
                 /\ extcap'.app = extcap.app
                 /\ extcap'.app_args = extcap.app_args
            ELSE /\ result' = Running
                 /\ pc' = "dispatch"
                 /\ call[2] = "add_interface" =>
                      /\ extcap'.interfaces = Append(extcap.interfaces, call[3])
                      /\ get_if_idx(extcap', call[3].interface) # -1
                 /\ call[2] = "add_control" =>
                      Len(extcap'.controls) = Len(extcap.controls) + 1]_vars
    /\ [](\A i \in 1..Len(UpdateCalls) :
            (UpdateCalls[i][2] = "add_interface" /\ pc = "done" /\ result # Panicked) =>
               /\ result # ErrInvalidInterface(UpdateCalls[i][3].interface)
               /\ (extcap.step = StepQueryIfaces) =>
                     \E k \in 1..Len(stdout) :
                        stdout[k] = <<"interface", UpdateCalls[i][3].interface>>)

\* QueryInterfaces printed an interface that update_interfaces added: all
\* its argument names were registered before the run by another interface
C35_Witness ==
    /\ pc = "done"
    /\ result = Ok
    /\ extcap.step = StepQueryIfaces
    /\ Len(extcap.interfaces) = 2
    /\ extcap.interfaces[1].interface = "ifC"
    /\ UpdateCalls # <<>>
    /\ UpdateCalls[1][2] = "add_interface"
    /\ UpdateCalls[1][3].interface = "ifD"
    /\ stdout[3] = <<"interface", "ifD">>

\* ------------------------------------------------------------------------
\* C36: a capture whose control pipes do not open
\* ------------------------------------------------------------------------
\* create_control_pipe failed in this run
OpenFailed == Called("warn")

\* C36: in a Capture run the capture routine is given queue endpoints
\* exactly when both control flags are on the command line and both pipes
\* opened.  A pipe that does not open is not fatal: the failure is logged,
\* the run goes on, the routine is called without endpoints, the engine is
\* neither started nor stopped, and the run returns the routine's result,
\* although the step is Capture with ctrl_pipe = TRUE.
C36_OpenFailure ==
    /\ [](\A i \in 1..Len(calls) :
            calls[i][1] = "capture_with_ctrl" =>
               (calls[i][2] <=>
                  (argv.control_in /\ argv.control_out /\ ~OpenFailed)))
    /\ [](OpenFailed =>
            /\ extcap.step = StepCapture(TRUE)
            /\ ctrl = "None"
            /\ ~Called("start") /\ ~Called("stop")
            /\ pc = "done" =>
                 \/ Called("capture_with_ctrl") /\ result = res
                 \/ ~Called("capture_with_ctrl") /\ result = Err("Io")
                      /\ Called("capture_header"))
    /\ [][pc = "capture" => (pc' = "capture_header" /\ result' = Running)]_vars

C36_Witness ==
    /\ pc = "done"
    /\ extcap.step = StepCapture(TRUE)
    /\ OpenFailed
    /\ calls[Len(calls)] = <<"capture_with_ctrl", FALSE>>
    /\ res = Err("UserError")
    /\ result = Err("UserError")

\* ------------------------------------------------------------------------
\* C37: the length field of encode
\* ------------------------------------------------------------------------
\* the three length bytes of a frame header as a number
LengthField(head) == head[2] * 65536 + head[3] * 256 + head[4]

\* C37: the three-byte big-endian length that encode writes is the payload
\* length + 2; for a payload of more than 2^24 - 3 bytes encode writes
\* (payload length + 2) mod 2^24 and reports no error, and decode of that
\* frame does not give back the message that was submitted.
C37_LengthField ==
    (subject[1] = "msg" /\ fns # <<>>) =>
        LET n == subject[2].len
            \* the frame of a message whose payload can be written out
            frame == encode(ControlMsg(subject[2].ctrl_num, subject[2].command,
                                       [i \in 1..n |-> 0]), <<>>)
        IN
        /\ fns = <<"encode">> =>
             /\ Len(got) = 6
             /\ n <= LongLen => got = Take(frame, 6)
             /\ n <= U24 - 3 => LengthField(got) = n + 2
             /\ n > U24 - 3 => LengthField(got) = (n + 2) % U24
        /\ fns = <<"encode", "decode">> =>
             /\ n <= U24 - 3 =>
                  /\ got.kind = "Some"
                  /\ got.len = n
                  /\ got.ctrl_num = subject[2].ctrl_num
                  /\ got.left = 0
                  /\ n <= LongLen =>
                       /\ decode(frame).kind = "Some"
                       /\ decode(frame).msg.command = got.command
                       /\ Len(decode(frame).msg.data) = got.len
                       /\ Len(decode(frame).rest) = got.left
             /\ n > U24 - 3 => (got.kind # "Some" \/ got.len # n)

\* a payload of 2^24 - 2 bytes: the length field is 0 and decode fails
C37_Witness ==
    /\ subject[1] = "msg"
    /\ subject[2].len = U24 - 2
    /\ fns = <<"encode", "decode">>
    /\ got.kind = "Err"

\* ------------------------------------------------------------------------
\* C38: what decode does to the buffer
\* ------------------------------------------------------------------------
\* the bytes of the encoder's output that have reached the decoder
Arrived == Consumed(sent) - Len(wire)

\* the frames that have arrived whole
WholeFrames ==
    CHOOSE k \in 0..Len(sent) :
        /\ Consumed(Take(sent, k)) <= Arrived
        /\ k < Len(sent) => Consumed(Take(sent, k + 1)) > Arrived

\* the message a frame carries: the command is the one its code byte names
OnWire(m) == [m EXCEPT !.command = FromU8(ToU8(m.command))]

\* C38: a decode that returns a message removes the first 4 + declared
\* length bytes of the buffer and leaves the bytes after them as they are; a
\* decode that returns an error or need-more-data leaves the buffer as it
\* was.  So a buffer fed with k whole frames and a part of the next gives
\* those k messages in wire order and then need-more-data.
C38_FrameEffect ==
    /\ (last = "decode" /\ dres.kind = "Some") =>
          /\ Len(din) >= 4 + DeclaredLen(din)
          /\ buf = Drop(din, 4 + DeclaredLen(din))
    /\ (last = "decode" /\ dres.kind # "Some") => buf = din
    /\ Loopback =>
          /\ dres.kind # "Err"
          /\ Len(out) <= WholeFrames
          /\ \A i \in 1..Len(out) : out[i] = OnWire(sent[i])
          /\ (last = "decode" /\ dres.kind = "None") =>
                /\ Len(out) = WholeFrames
                /\ Len(buf) = Arrived - Consumed(Take(sent, WholeFrames))

\* decode took the first of two frames out of a buffer that held it and a
\* part of the second
C38_Witness ==
    /\ last = "decode"
    /\ dres.kind = "Some"
    /\ Len(sent) = 2
    /\ out = <<OnWire(sent[1])>>
    /\ sent[1].data = <<SYNC>>
    /\ Len(din) = 7 + 5
    /\ Len(buf) = 5
    /\ wire # <<>>

\* ------------------------------------------------------------------------
\* C39: the conversions between command and byte
\* ------------------------------------------------------------------------
\* the codes of the ten named commands
CommandCode ==
    [Initialized |-> 0, Set |-> 1, Add |-> 2, Remove |-> 3, Enable |-> 4,
     Disable |-> 5, StatusbarMessage |-> 6, InformationMessage |-> 7,
     WarningMessage |-> 8, ErrorMessage |-> 9]

\* the named command with a code
CommandOfCode(v) == CHOOSE n \in DOMAIN CommandCode : CommandCode[n] = v

\* C39: byte -> command -> byte is the identity on 0..255; the bytes 0..9
\* give the ten named commands and every other byte v gives Unknown(v);
\* command -> byte -> command is the identity except on Unknown(v) with
\* v < 10, which comes back as the named command with code v.
C39_Conversions ==
    /\ (subject[1] = "u8" /\ Len(fns) >= 1 /\ fns[1] = "from_u8") =>
          LET v == subject[2]
              cmd == IF v <= 9 THEN <<CommandOfCode(v)>> ELSE <<"Unknown", v>>
          IN  /\ fns = <<"from_u8">> => got = cmd
              /\ fns = <<"from_u8", "to_u8">> => got = v
    /\ (subject[1] = "cmd" /\ Len(fns) >= 1 /\ fns[1] = "to_u8") =>
          LET c == subject[2] IN
          /\ fns = <<"to_u8">> =>
                got = IF c[1] = "Unknown" THEN c[2] ELSE CommandCode[c[1]]
          /\ fns = <<"to_u8", "from_u8">> =>
                IF c[1] = "Unknown" /\ c[2] < 10
                THEN got = <<CommandOfCode(c[2])>>
                ELSE got = c

\* Unknown(3) went to its byte and came back as Remove
C39_Witness ==
    /\ subject = <<"cmd", Unknown(3)>>
    /\ fns = <<"to_u8", "from_u8">>
    /\ got = Named("Remove")

====
